---- MODULE Spec2Model ----
(***************************************************************************)
(* Meridian evidence collection agent: the cycle driver (main.run_cycle,   *)
(* main.main), the append-only Merkle log (crypto/merkle.py), the store    *)
(* (db.py), the ticketing client (ticketer.py) and the mock ticketing      *)
(* service (ticketing/main.py).                                            *)
(*                                                                         *)
(* SHA-256 is modelled as a collision-free constructor: a digest is the    *)
(* prefix (Polish) serialisation of the term that was hashed, a sequence   *)
(* of integers; two digests are equal iff the hashed terms are equal.      *)
(***************************************************************************)
EXTENDS Integers, Sequences, FiniteSets, TLC

VARIABLES
    pc,              \* position of the agent process in main()/run_cycle()
    ci,              \* run_cycle: index of the control being processed (0: none)
    pi,              \* run_cycle: index of the product being processed (0: none)
    result,          \* run_cycle: the CheckResult of the current control
    evidence_id,     \* run_cycle: id returned by db.insert_evidence (0: none)
    ticket_number,   \* run_cycle: ticket_number local (0: None)
    ticket_sys_id,   \* run_cycle: ticket_sys_id local (<<>>: None)
    merkle_leaves,   \* MerkleTree._leaves of the running process
    txn_failed,      \* the connection is inside a failed transaction
    evidence,        \* relation evidence, in insertion order
    control_runs,    \* relation control_runs, in insertion order (run_at)
    trust_envelopes, \* relation trust_envelopes, in insertion order (created_at)
    store,           \* ticketing service: _store, in creation order (_counter = Len)
    clock,           \* datetime.now(): strictly increasing tick
    run_start,       \* run_cycle: the time the current cycle started (0: none)
    nfaults,         \* number of faults so far: failed calls and process kills
    appended,        \* history: every leaf hash MerkleTree.append ever added
    ev,              \* history: what the last step did
    seeded,          \* _leaves of a second MerkleTree, seeded from leaf hashes
    arg,             \* the arguments of a function called on its own
    out,             \* what the last call of such a function returned or raised
    key_file,        \* the key kept in signing_key.pem (0: no file)
    key_pair,        \* the KeyPair of the running process, where it matters
    _lock,           \* ticketing service: the thread that holds _lock (0: free)
    _counter,        \* ticketing service: _counter
    threads,         \* ticketing service: the request each worker thread handles
    committed        \* history: per incident, its record after each completed write

vars == <<pc, ci, pi, result, evidence_id, ticket_number, ticket_sys_id,
          merkle_leaves, txn_failed, evidence, control_runs, trust_envelopes,
          store, clock, run_start, nfaults, appended, ev, seeded, arg, out,
          key_file, key_pair, _lock, _counter, threads, committed>>

\* the variables only the calls of single functions use
calls == <<seeded, arg, out, key_file, key_pair, _lock, _counter, threads,
           committed>>

keys == <<key_file, key_pair>>

\* the threads of the ticketing service, where its requests are followed
service == <<_lock, _counter, threads, committed>>

(***************************************************************************)
(* Bounds of the exploration.                                              *)
(***************************************************************************)
MaxCollected == 3
MaxFaults == 2

(***************************************************************************)
(* Configuration (controls.yaml, products.yaml), fixed at startup.         *)
(***************************************************************************)
Controls ==
    << [id |-> "LA.01", check |-> "new_access_no_approval"],
       [id |-> "LA.77", check |-> "not_registered"],
       [id |-> "LA.02", check |-> "terminations_sla"] >>

Products ==
    << [id |-> "P1", controls |-> <<"LA.01", "LA.02">>],
       [id |-> "P2", controls |-> <<"LA.01">>] >>

REGISTRY ==
    {"new_access_no_approval", "terminations_sla", "quarterly_uar",
     "admin_access_count"}

NoResult == [status |-> "none", summary |-> <<>>]
NoSysId == <<>>
NoArg == <<>>
NoOut == [op |-> "none"]
NoEvent == [op |-> "Init", outcome |-> "ok", cause |-> "none", check |-> "none"]

RECURSIVE SelectIds(_, _, _)
SelectIds(ps, cid, k) ==
    IF k > Len(ps) THEN <<>>
    ELSE (IF \E j \in 1..Len(ps[k].controls) : ps[k].controls[j] = cid
          THEN <<ps[k].id>> ELSE <<>>) \o SelectIds(ps, cid, k + 1)

\* ctrl_products.get(ctrl_id, []): the products listing the control, in file order
ctrl_products(cid) == SelectIds(Products, cid, 1)

(***************************************************************************)
(* crypto/merkle.py                                                        *)
(***************************************************************************)
ControlCode(cid) == CHOOSE k \in 1..Len(Controls) : Controls[k].id = cid

StatusCode(s) == CASE s = "pass" -> 1 [] s = "fail" -> 2 [] s = "error" -> 3

SummaryCode(sm) == IF "error" \in DOMAIN sm THEN 2 ELSE 1

\* SHA256(0x00 || canonical_json(item)): the 0 tag, then the item's fields
_hash_leaf(item) ==
    <<0, ControlCode(item.control_id), StatusCode(item.status),
      SummaryCode(item.summary), item.collected_at>>

\* SHA256(0x01 || left || right): the 1 tag, then both operands
_hash_pair(left, right) == <<1>> \o left \o right

\* current + [current[-1]] when the level has odd length
PadLevel(level) ==
    IF Len(level) % 2 # 0 THEN Append(level, level[Len(level)]) ELSE level

Parents(level) ==
    LET current == PadLevel(level)
    IN  [i \in 1..(Len(current) \div 2) |->
            _hash_pair(current[2 * i - 1], current[2 * i])]

RECURSIVE BuildLevels(_)
BuildLevels(levels) ==
    IF Len(levels[Len(levels)]) > 1
    THEN BuildLevels(Append(levels, Parents(levels[Len(levels)])))
    ELSE levels

_build_tree(leaves) == IF leaves = <<>> THEN <<>> ELSE BuildLevels(<<leaves>>)

NoRoot == <<>>

\* MerkleTree.root
root(leaves) ==
    IF leaves = <<>> THEN NoRoot
    ELSE LET levels == _build_tree(leaves) IN levels[Len(levels)][1]

\* MerkleTree.count
count(leaves) == Len(leaves)

RECURSIVE ProofSteps(_, _, _)
ProofSteps(levels, k, idx) ==
    IF k >= Len(levels) THEN <<>>
    ELSE LET padded == PadLevel(levels[k])
             sibling_idx == IF idx % 2 = 0 THEN idx + 1 ELSE idx - 1
             position == IF idx % 2 = 0 THEN "right" ELSE "left"
         IN  <<[hash |-> padded[sibling_idx + 1], position |-> position]>>
             \o ProofSteps(levels, k + 1, idx \div 2)

\* MerkleTree.get_proof(index), index zero-based and in range
get_proof(leaves, index) ==
    LET levels == _build_tree(leaves)
    IN  [leaf_hash |-> leaves[index + 1],
         index |-> index,
         proof_hashes |-> ProofSteps(levels, 1, index),
         root_hash |-> levels[Len(levels)][1]]

RECURSIVE FoldProof(_, _, _)
FoldProof(current, proof_hashes, k) ==
    IF k > Len(proof_hashes) THEN current
    ELSE FoldProof(IF proof_hashes[k].position = "right"
                   THEN _hash_pair(current, proof_hashes[k].hash)
                   ELSE _hash_pair(proof_hashes[k].hash, current),
                   proof_hashes, k + 1)

\* a variant that compares only the sizes of the hashed terms
verify_proof_by_length(leaf_hash, proof_hashes, root_hash) ==
    Len(FoldProof(leaf_hash, proof_hashes, 1)) = Len(root_hash)

\* a variant that takes every sibling as the right operand
RECURSIVE FoldRight(_, _, _)
FoldRight(current, proof_hashes, k) ==
    IF k > Len(proof_hashes) THEN current
    ELSE FoldRight(_hash_pair(current, proof_hashes[k].hash), proof_hashes, k + 1)

verify_proof_right_only(leaf_hash, proof_hashes, root_hash) ==
    FoldRight(leaf_hash, proof_hashes, 1) = root_hash

\* MerkleTree.verify_proof
verify_proof(leaf_hash, proof_hashes, root_hash) ==
    FoldProof(leaf_hash, proof_hashes, 1) = root_hash

(***************************************************************************)
(* db.py reads                                                             *)
(***************************************************************************)
RowIds(rel) == 1..Len(rel)

LeafRows == {k \in RowIds(evidence) : evidence[k].merkle_leaf_hash # <<>>}

\* the orders ORDER BY merkle_index ASC may return: rows with equal index
\* come in any order
RECURSIVE SortedOrders(_, _)
SortedOrders(rel, S) ==
    IF S = {} THEN {<<>>}
    ELSE LET least == {k \in S : \A j \in S :
                          rel[k].merkle_index <= rel[j].merkle_index}
         IN  UNION {{<<k>> \o t : t \in SortedOrders(rel, S \ {k})} : k \in least}

\* db.get_evidence_leaf_hashes: the results the query may give
get_evidence_leaf_hashes ==
    {[i \in 1..Len(o) |-> evidence[o[i]].merkle_leaf_hash] :
        o \in SortedOrders(evidence, LeafRows)}

TicketedRuns(cid) ==
    {k \in RowIds(control_runs) :
        control_runs[k].control_id = cid /\ control_runs[k].ticket_number # 0}

\* db.get_last_ticket: ticket_number of the latest run of the control that has one
get_last_ticket(cid) ==
    IF TicketedRuns(cid) = {} THEN 0
    ELSE control_runs[CHOOSE k \in TicketedRuns(cid) :
                         \A j \in TicketedRuns(cid) : j <= k].ticket_number

SysIdRuns(cid) ==
    {k \in RowIds(control_runs) :
        control_runs[k].control_id = cid /\ control_runs[k].ticket_sys_id # NoSysId}

\* the inline query of run_cycle: ticket_sys_id of the latest run that has one
last_sys_id(cid) ==
    IF SysIdRuns(cid) = {} THEN NoSysId
    ELSE control_runs[CHOOSE k \in SysIdRuns(cid) :
                         \A j \in SysIdRuns(cid) : j <= k].ticket_sys_id

(***************************************************************************)
(* ticketer.py and the mock ticketing service                              *)
(***************************************************************************)
\* uuid4 of the k-th incident
SysIdOf(k) == <<k>>

\* get_incident: the record, or none (404)
get_ticket(sys_id) ==
    {store[k] : k \in {j \in 1..Len(store) : SysIdOf(j) = sys_id}}

\* a variant that counts only state 1 (New) as open
is_ticket_open_new_only(sys_id) ==
    \E t \in get_ticket(sys_id) : t.state = 1

\* TicketingClient.is_ticket_open
is_ticket_open(sys_id) ==
    \E t \in get_ticket(sys_id) : t.state \in {1, 2}

\* main() up to the loop, on an empty database and ticketing service
AgentInit ==
    /\ pc = "idle"
    /\ ci = 0
    /\ pi = 0
    /\ result = NoResult
    /\ evidence_id = 0
    /\ ticket_number = 0
    /\ ticket_sys_id = NoSysId
    /\ merkle_leaves = <<>>
    /\ txn_failed = FALSE
    /\ evidence = <<>>
    /\ control_runs = <<>>
    /\ trust_envelopes = <<>>
    /\ store = <<>>
    /\ clock = 1
    /\ run_start = 0
    /\ nfaults = 0
    /\ appended = <<>>
    /\ ev = NoEvent

\* no key file yet, and the key of the process left out
NoKeys == key_file = 0 /\ key_pair = 0

MaxThreads == 2

Threads == 1..MaxThreads

NoResponse == [code |-> 0, records |-> <<>>]

\* a worker thread that waits for a request, having served some
\* a request without a JSON body
NoBody == [state |-> 0, number |-> <<>>]

IdleThread(served) ==
    [pc |-> "idle", op |-> "none", target |-> 0, body |-> NoBody, ref |-> 0,
     floor |-> 0, response |-> NoResponse, served |-> served]

\* the ticketing service has just started: no request yet
NoRequests ==
    /\ _lock = 0
    /\ _counter = 0
    /\ threads = [t \in Threads |-> IdleThread(0)]
    /\ committed = <<>>

Init ==
    /\ AgentInit
    /\ NoKeys
    /\ NoRequests
    /\ seeded = <<>>
    /\ arg = NoArg
    /\ out = NoOut

(***************************************************************************)
(* main.py: run_cycle and the loop of main                                 *)
(***************************************************************************)
Event(op, outcome, cause, check) ==
    [op |-> op, outcome |-> outcome, cause |-> cause, check |-> check]

CanFault == nfaults < MaxFaults

\* a variant in which the frame of run_cycle survives the exception
PropagateKeepsFrame ==
    /\ pc' = "reconnect"
    /\ UNCHANGED calls
    /\ UNCHANGED <<ci, pi, result, evidence_id, ticket_number, ticket_sys_id>>

\* an exception leaves run_cycle: main logs it and goes to reconnect
Propagate ==
    /\ pc' = "reconnect"
    /\ ci' = 0
    /\ pi' = 0
    /\ result' = NoResult
    /\ evidence_id' = 0
    /\ ticket_number' = 0
    /\ ticket_sys_id' = NoSysId

\* the for loop of run_cycle moves to the next control, or run_cycle returns
NextControl ==
    /\ IF ci < Len(Controls)
       THEN pc' = "control" /\ ci' = ci + 1
       ELSE pc' = "idle" /\ ci' = 0
    /\ pi' = 0
    /\ result' = NoResult
    /\ evidence_id' = 0
    /\ ticket_number' = 0
    /\ ticket_sys_id' = NoSysId

StartCycle ==
    /\ pc = "idle"
    /\ clock <= MaxCollected
    /\ run_start' = clock
    /\ pc' = "control"
    /\ ci' = 1
    /\ ev' = Event("StartCycle", "ok", "none", "none")
    /\ UNCHANGED calls
    /\ UNCHANGED <<pi, result, evidence_id, ticket_number, ticket_sys_id,
                   merkle_leaves, txn_failed, evidence, control_runs,
                   trust_envelopes, store, clock, nfaults, appended>>

\* a variant in which an unknown check name ends the cycle
SkipUnknownCheckEndsCycle ==
    /\ pc = "control"
    /\ Controls[ci].check \notin REGISTRY
    /\ pc' = "idle"
    /\ ci' = 0
    /\ pi' = 0
    /\ result' = NoResult
    /\ evidence_id' = 0
    /\ ticket_number' = 0
    /\ ticket_sys_id' = NoSysId
    /\ ev' = Event("SkipUnknownCheck", "ok", "none", "none")
    /\ UNCHANGED calls
    /\ UNCHANGED <<merkle_leaves, txn_failed, evidence, control_runs,
                   trust_envelopes, store, clock, run_start, nfaults,
                   appended>>

\* check_fn is None: log and continue
SkipUnknownCheck ==
    /\ pc = "control"
    /\ Controls[ci].check \notin REGISTRY
    /\ NextControl
    /\ ev' = Event("SkipUnknownCheck", "ok", "none", "none")
    /\ UNCHANGED calls
    /\ UNCHANGED <<merkle_leaves, txn_failed, evidence, control_runs,
                   trust_envelopes, store, clock, run_start, nfaults,
                   appended>>

\* what a check function may do: return a CheckResult, or raise
CheckSummary(check, found) ==
    IF check = "new_access_no_approval"
    THEN [recent_users_checked |-> 2, missing_approval |-> found]
    ELSE IF check = "terminations_sla"
    THEN [disabled_users_with_sla_tracking |-> 2, sla_breaches |-> found]
    ELSE [found |-> found]

CheckBehaviours(check) ==
    {[kind |-> "returned", status |-> "pass",
      summary |-> CheckSummary(check, 0)],
     [kind |-> "returned", status |-> "fail",
      summary |-> CheckSummary(check, 1)],
     [kind |-> "raised", status |-> "none",
      summary |-> [error |-> "unavailable"]]}

\* a variant that grades a raising check as a failed control
OnCheckRaisedAsFail(msg) == [status |-> "fail", summary |-> [error |-> msg]]

\* except Exception as exc: result = CheckResult("error", {"error": str(exc)})
OnCheckRaised(msg) == [status |-> "error", summary |-> [error |-> msg]]

CheckResultOf(b) ==
    IF b.kind = "raised" THEN OnCheckRaised(b.summary.error)
    ELSE [status |-> b.status, summary |-> b.summary]

evidence_payload(b) ==
    [control_id |-> Controls[ci].id,
     check |-> Controls[ci].check,
     collected_at |-> clock,
     status |-> CheckResultOf(b).status,
     summary |-> CheckResultOf(b).summary]

\* the row db.insert_evidence commits
EvidenceRow(payload, leaf_hash, leaf_index) ==
    [control_id |-> payload.control_id,
     check_name |-> payload.check,
     raw_data |-> payload,
     merkle_leaf_hash |-> leaf_hash,
     merkle_index |-> leaf_index,
     run_start |-> run_start]

\* where run_cycle goes once the claim is built
AfterClaim ==
    IF ctrl_products(Controls[ci].id) # <<>>
    THEN pc' = "envelope" /\ pi' = 1
    ELSE pc' = (IF result'.status = "fail" THEN "ticket" ELSE "run") /\ pi' = 0

\* signer.sign raises: nothing was appended or written
SignFails ==
    /\ pc = "control"
    /\ Controls[ci].check \in REGISTRY
    /\ clock <= MaxCollected
    /\ CanFault
    /\ \E b \in CheckBehaviours(Controls[ci].check) :
          ev' = Event("CollectEvidence", "sign_failed", "fault", b.kind)
    /\ nfaults' = nfaults + 1
    /\ clock' = clock + 1
    /\ Propagate
    /\ UNCHANGED calls
    /\ UNCHANGED <<merkle_leaves, txn_failed, evidence, control_runs,
                   trust_envelopes, store, run_start, appended>>

\* merkle_tree.append succeeded, db.insert_evidence raises
InsertEvidenceFails ==
    /\ pc = "control"
    /\ Controls[ci].check \in REGISTRY
    /\ clock <= MaxCollected
    /\ CanFault
    /\ \E b \in CheckBehaviours(Controls[ci].check) :
          /\ merkle_leaves' = Append(merkle_leaves, _hash_leaf(evidence_payload(b)))
          /\ appended' = Append(appended, _hash_leaf(evidence_payload(b)))
          /\ ev' = Event("CollectEvidence", "insert_failed", "fault", b.kind)
    /\ nfaults' = nfaults + 1
    /\ clock' = clock + 1
    /\ Propagate
    /\ UNCHANGED calls
    /\ UNCHANGED <<txn_failed, evidence, control_runs, trust_envelopes, store,
                   run_start>>

\* the evidence row is committed, build_claim raises
BuildClaimFails ==
    /\ pc = "control"
    /\ Controls[ci].check \in REGISTRY
    /\ clock <= MaxCollected
    /\ CanFault
    /\ \E b \in CheckBehaviours(Controls[ci].check) :
          LET leaf_hash == _hash_leaf(evidence_payload(b))
              tree == Append(merkle_leaves, leaf_hash)
          IN  /\ merkle_leaves' = tree
              /\ appended' = Append(appended, leaf_hash)
              /\ evidence' = Append(evidence,
                     EvidenceRow(evidence_payload(b), leaf_hash, count(tree) - 1))
              /\ ev' = Event("CollectEvidence", "claim_failed", "fault", b.kind)
    /\ nfaults' = nfaults + 1
    /\ clock' = clock + 1
    /\ Propagate
    /\ UNCHANGED calls
    /\ UNCHANGED <<txn_failed, control_runs, trust_envelopes, store, run_start>>

\* check, sign, append, insert_evidence, build_claim all succeed
CollectEvidence ==
    /\ pc = "control"
    /\ Controls[ci].check \in REGISTRY
    /\ clock <= MaxCollected
    /\ \E b \in CheckBehaviours(Controls[ci].check) :
          LET leaf_hash == _hash_leaf(evidence_payload(b))
              tree == Append(merkle_leaves, leaf_hash)
          IN  /\ merkle_leaves' = tree
              /\ appended' = Append(appended, leaf_hash)
              /\ evidence' = Append(evidence,
                     EvidenceRow(evidence_payload(b), leaf_hash, count(tree) - 1))
              /\ result' = CheckResultOf(b)
              /\ ev' = Event("CollectEvidence", "ok", "none", b.kind)
    /\ evidence_id' = Len(evidence')
    /\ clock' = clock + 1
    /\ AfterClaim
    /\ UNCHANGED calls
    /\ UNCHANGED <<ci, ticket_number, ticket_sys_id, txn_failed, control_runs,
                   trust_envelopes, store, run_start, nfaults>>

\* round(x, 4): four decimal places
ConfScale == 10000

\* summary.get(key, 0)
Get(summary, key) == IF key \in DOMAIN summary THEN summary[key] ELSE 0

\* round(1.0 - (part / whole), 4) for whole > 0, to the nearest unit
RoundedRate(part, whole) ==
    (2 * ConfScale * (whole - part) + whole) \div (2 * whole)

\* a variant that grades every failed control as binary
_compute_confidence_binary(res, ctrl_id) ==
    IF res.status = "error" THEN ConfScale \div 10
    ELSE IF res.status = "pass" THEN ConfScale
    ELSE 0

_compute_confidence(res, ctrl_id) ==
    IF res.status = "error" THEN ConfScale \div 10
    ELSE IF res.status = "pass" THEN ConfScale
    ELSE IF ctrl_id = "LA.01"
         THEN LET checked == Get(res.summary, "recent_users_checked")
                  missing == Get(res.summary, "missing_approval")
              IN  IF checked > 0 THEN RoundedRate(missing, checked) ELSE 0
    ELSE IF ctrl_id = "LA.02"
         THEN LET tracked == Get(res.summary, "disabled_users_with_sla_tracking")
                  breaches == Get(res.summary, "sla_breaches")
              IN  IF tracked > 0 THEN RoundedRate(breaches, tracked) ELSE 0
    ELSE 0

RECURSIVE Sum(_, _)
Sum(confs, k) == IF k > Len(confs) THEN 0 ELSE confs[k] + Sum(confs, k + 1)

\* round(total / n, 4) in units of 1/ConfScale. A mean half way between two
\* units is rounded by the binary value of the quotient, which lies on either
\* side: both neighbours are results.
RoundedMeans(total, n) ==
    LET q == total \div n
        r == total % n
    IN  IF 2 * r < n THEN {q}
        ELSE IF 2 * r > n THEN {q + 1}
        ELSE {q, q + 1}

\* round(sum(c.confidence for c in claims) / len(claims), 4) if claims else 0.0
composite_confidences(confs) ==
    IF confs = <<>> THEN {0} ELSE RoundedMeans(Sum(confs, 1), Len(confs))

\* build_claim: the claim references the persisted evidence row and carries
\* the confidence computed from the result
build_claim(res, ev_id, ctrl_id) ==
    [status |-> res.status,
     evidence_refs |-> <<ev_id>>,
     confidence |-> _compute_confidence(res, ctrl_id)]

\* a variant that takes total_items from the number of evidence rows
build_trust_envelope_by_rows(cid, pid, claim, leaves) ==
    [control_id |-> cid,
     product_id |-> pid,
     claims |-> <<claim>>,
     composite_confidence |->
        CHOOSE c \in composite_confidences(<<claim.confidence>>) : TRUE,
     total_items |-> Len(evidence),
     merkle_root |-> root(leaves),
     collection_window_start |-> run_start,
     seen |-> Len(appended)]

\* build_trust_envelope and the row db.insert_trust_envelope commits
build_trust_envelope(cid, pid, claim, leaves) ==
    [control_id |-> cid,
     product_id |-> pid,
     claims |-> <<claim>>,
     composite_confidence |->
        CHOOSE c \in composite_confidences(<<claim.confidence>>) : TRUE,
     total_items |-> count(leaves),
     merkle_root |-> root(leaves),
     collection_window_start |-> run_start,
     seen |-> Len(appended)]

\* a variant in which the check of the control is run again after the envelopes
NextProductChecksAgain ==
    IF pi < Len(ctrl_products(Controls[ci].id))
    THEN pc' = "envelope" /\ pi' = pi + 1
    ELSE pc' = "control" /\ pi' = 0

\* a variant that takes the ticket branch whatever the status
NextProductAlwaysTickets ==
    IF pi < Len(ctrl_products(Controls[ci].id))
    THEN pc' = "envelope" /\ pi' = pi + 1
    ELSE pc' = "ticket" /\ pi' = 0

\* the for loop over product_ids moves on, or ends
NextProduct ==
    IF pi < Len(ctrl_products(Controls[ci].id))
    THEN pc' = "envelope" /\ pi' = pi + 1
    ELSE pc' = (IF result.status = "fail" THEN "ticket" ELSE "run") /\ pi' = 0

\* a variant that keeps only the newest envelope of a control and product
StoreEnvelopeReplacing ==
    /\ pc = "envelope"
    /\ ~txn_failed
    /\ LET envelope == build_trust_envelope(Controls[ci].id,
                                            ctrl_products(Controls[ci].id)[pi],
                                            build_claim(result, evidence_id,
                                                        Controls[ci].id),
                                            merkle_leaves)
           Other(e) == e.control_id # envelope.control_id
                       \/ e.product_id # envelope.product_id
       IN  trust_envelopes' = Append(SelectSeq(trust_envelopes, Other), envelope)
    /\ NextProduct
    /\ ev' = Event("Envelope", "ok", "none", "none")
    /\ UNCHANGED calls
    /\ UNCHANGED <<ci, result, evidence_id, ticket_number, ticket_sys_id,
                   merkle_leaves, txn_failed, evidence, control_runs, store,
                   clock, run_start, nfaults, appended>>

\* the envelope is built and committed
StoreEnvelope ==
    /\ pc = "envelope"
    /\ ~txn_failed
    /\ trust_envelopes' = Append(trust_envelopes,
           build_trust_envelope(Controls[ci].id,
                                ctrl_products(Controls[ci].id)[pi],
                                build_claim(result, evidence_id,
                                            Controls[ci].id),
                                merkle_leaves))
    /\ NextProduct
    /\ ev' = Event("Envelope", "ok", "none", "none")
    /\ UNCHANGED calls
    /\ UNCHANGED <<ci, result, evidence_id, ticket_number, ticket_sys_id,
                   merkle_leaves, txn_failed, evidence, control_runs, store,
                   clock, run_start, nfaults, appended>>

\* build_trust_envelope raises: logged, next product
EnvelopeBuildFails ==
    /\ pc = "envelope"
    /\ CanFault
    /\ nfaults' = nfaults + 1
    /\ NextProduct
    /\ ev' = Event("Envelope", "build_failed", "fault", "none")
    /\ UNCHANGED calls
    /\ UNCHANGED <<ci, result, evidence_id, ticket_number, ticket_sys_id,
                   merkle_leaves, txn_failed, evidence, control_runs,
                   trust_envelopes, store, clock, run_start, appended>>

\* the INSERT of db.insert_trust_envelope raises: logged, next product; the
\* connection (autocommit off) is left in the failed transaction, no rollback
EnvelopeInsertFails ==
    /\ pc = "envelope"
    /\ ~txn_failed
    /\ CanFault
    /\ nfaults' = nfaults + 1
    /\ txn_failed' = TRUE
    /\ NextProduct
    /\ ev' = Event("Envelope", "insert_failed", "fault", "none")
    /\ UNCHANGED calls
    /\ UNCHANGED <<ci, result, evidence_id, ticket_number, ticket_sys_id,
                   merkle_leaves, evidence, control_runs, trust_envelopes,
                   store, clock, run_start, appended>>

\* the INSERT is refused because the transaction is already failed: logged
EnvelopeInsertRefused ==
    /\ pc = "envelope"
    /\ txn_failed
    /\ NextProduct
    /\ ev' = Event("Envelope", "insert_failed", "txn_failed", "none")
    /\ UNCHANGED calls
    /\ UNCHANGED <<ci, result, evidence_id, ticket_number, ticket_sys_id,
                   merkle_leaves, txn_failed, evidence, control_runs,
                   trust_envelopes, store, clock, run_start, nfaults,
                   appended>>

\* a variant that reuses the recorded ticket whatever its state
ReusableTicketAnyState(cid) ==
    /\ get_last_ticket(cid) # 0
    /\ last_sys_id(cid) # NoSysId

\* the ticket to reuse: the recorded one, when it is still open
ReusableTicket(cid) ==
    /\ get_last_ticket(cid) # 0
    /\ last_sys_id(cid) # NoSysId
    /\ is_ticket_open(last_sys_id(cid))

\* the record the ticketing service stores for a new incident
_build_record(cid) == [state |-> 1, control_id |-> cid, number |-> Len(store) + 1]

\* status fail, an open ticket is recorded: reuse it
ReuseTicket ==
    /\ pc = "ticket"
    /\ ~txn_failed
    /\ ReusableTicket(Controls[ci].id)
    /\ ticket_number' = get_last_ticket(Controls[ci].id)
    /\ ticket_sys_id' = last_sys_id(Controls[ci].id)
    /\ pc' = "run"
    /\ ev' = Event("Ticketing", "reused", "none", "none")
    /\ UNCHANGED calls
    /\ UNCHANGED <<ci, pi, result, evidence_id, merkle_leaves, txn_failed,
                   evidence, control_runs, trust_envelopes, store, clock, run_start,
                   nfaults, appended>>

\* a variant that never creates a ticket for a control whose earlier failing
\* run was written without one
CreateTicketNeverAgain ==
    /\ pc = "ticket"
    /\ ~txn_failed
    /\ ~ReusableTicket(Controls[ci].id)
    /\ \A k \in RowIds(control_runs) :
          (/\ control_runs[k].control_id = Controls[ci].id
           /\ control_runs[k].status = "fail")
             => control_runs[k].ticket_number # 0
    /\ store' = Append(store, _build_record(Controls[ci].id))
    /\ ticket_number' = Len(store')
    /\ ticket_sys_id' = SysIdOf(Len(store'))
    /\ pc' = "run"
    /\ ev' = Event("Ticketing", "created", "none", "none")
    /\ UNCHANGED calls
    /\ UNCHANGED <<ci, pi, result, evidence_id, merkle_leaves, txn_failed,
                   evidence, control_runs, trust_envelopes, clock, run_start,
                   nfaults, appended>>

\* status fail, no open ticket recorded: create_ticket succeeds
CreateTicket ==
    /\ pc = "ticket"
    /\ ~txn_failed
    /\ ~ReusableTicket(Controls[ci].id)
    /\ store' = Append(store, _build_record(Controls[ci].id))
    /\ ticket_number' = Len(store')
    /\ ticket_sys_id' = SysIdOf(Len(store'))
    /\ pc' = "run"
    /\ ev' = Event("Ticketing", "created", "none", "none")
    /\ UNCHANGED calls
    /\ UNCHANGED <<ci, pi, result, evidence_id, merkle_leaves, txn_failed,
                   evidence, control_runs, trust_envelopes, clock, run_start,
                   nfaults, appended>>

\* create_ticket raises: logged, the ticket fields stay None
CreateTicketFails ==
    /\ pc = "ticket"
    /\ ~txn_failed
    /\ ~ReusableTicket(Controls[ci].id)
    /\ CanFault
    /\ nfaults' = nfaults + 1
    /\ ticket_number' = 0
    /\ ticket_sys_id' = NoSysId
    /\ pc' = "run"
    /\ ev' = Event("Ticketing", "create_failed", "fault", "none")
    /\ UNCHANGED calls
    /\ UNCHANGED <<ci, pi, result, evidence_id, merkle_leaves, txn_failed,
                   evidence, control_runs, trust_envelopes, store, clock, run_start, appended>>

\* tc.is_ticket_open raises (get_ticket: transport error or a 5xx): no handler
\* in run_cycle, the exception leaves it
TicketLookupFails ==
    /\ pc = "ticket"
    /\ ~txn_failed
    /\ get_last_ticket(Controls[ci].id) # 0
    /\ last_sys_id(Controls[ci].id) # NoSysId
    /\ CanFault
    /\ nfaults' = nfaults + 1
    /\ Propagate
    /\ ev' = Event("Ticketing", "lookup_failed", "fault", "none")
    /\ UNCHANGED calls
    /\ UNCHANGED <<merkle_leaves, txn_failed, evidence, control_runs,
                   trust_envelopes, store, clock, run_start, appended>>

\* db.get_last_ticket raises: the query itself fails, or the transaction is
\* already failed; no handler in run_cycle
LastTicketQueryFails ==
    /\ pc = "ticket"
    /\ \/ /\ txn_failed
          /\ nfaults' = nfaults
          /\ ev' = Event("Ticketing", "query_failed", "txn_failed", "none")
       \/ /\ ~txn_failed
          /\ CanFault
          /\ nfaults' = nfaults + 1
          /\ ev' = Event("Ticketing", "query_failed", "fault", "none")
    /\ Propagate
    /\ UNCHANGED calls
    /\ UNCHANGED <<merkle_leaves, txn_failed, evidence, control_runs,
                   trust_envelopes, store, clock, run_start, appended>>

\* the row db.insert_run commits
RunRow ==
    [control_id |-> Controls[ci].id,
     status |-> result.status,
     evidence_id |-> evidence_id,
     summary |-> result.summary,
     ticket_number |-> ticket_number,
     ticket_sys_id |-> ticket_sys_id,
     run_start |-> run_start]

InsertRun ==
    /\ pc = "run"
    /\ ~txn_failed
    /\ control_runs' = Append(control_runs, RunRow)
    /\ NextControl
    /\ ev' = Event("InsertRun", "ok", "none", "none")
    /\ UNCHANGED calls
    /\ UNCHANGED <<merkle_leaves, txn_failed, evidence, trust_envelopes, store,
                   clock, run_start, nfaults, appended>>

\* db.insert_run raises: the insert itself fails, or the transaction is
\* already failed; no handler in run_cycle
\* a variant in which the row is written although the call raises
InsertRunFailsAfterWrite ==
    /\ pc = "run"
    /\ ~txn_failed
    /\ CanFault
    /\ nfaults' = nfaults + 1
    /\ control_runs' = Append(control_runs, RunRow)
    /\ ev' = Event("InsertRun", "insert_failed", "fault", "none")
    /\ Propagate
    /\ UNCHANGED calls
    /\ UNCHANGED <<merkle_leaves, txn_failed, evidence, trust_envelopes, store,
                   clock, run_start, appended>>

InsertRunFails ==
    /\ pc = "run"
    /\ \/ /\ txn_failed
          /\ nfaults' = nfaults
          /\ ev' = Event("InsertRun", "insert_failed", "txn_failed", "none")
       \/ /\ ~txn_failed
          /\ CanFault
          /\ nfaults' = nfaults + 1
          /\ ev' = Event("InsertRun", "insert_failed", "fault", "none")
    /\ Propagate
    /\ UNCHANGED calls
    /\ UNCHANGED <<merkle_leaves, txn_failed, evidence, control_runs,
                   trust_envelopes, store, clock, run_start, appended>>

\* except Exception in main: conn.close(), wait_for_postgres, then sleep
Reconnect ==
    /\ pc = "reconnect"
    /\ txn_failed' = FALSE
    /\ pc' = "idle"
    /\ ev' = Event("Reconnect", "ok", "none", "none")
    /\ UNCHANGED calls
    /\ UNCHANGED <<ci, pi, result, evidence_id, ticket_number, ticket_sys_id,
                   merkle_leaves, evidence, control_runs, trust_envelopes,
                   store, clock, run_start, nfaults, appended>>

\* wait_for_postgres gives up after its deadline (reraise): main ends
ReconnectFails ==
    /\ pc = "reconnect"
    /\ pc' = "exited"
    /\ ev' = Event("Reconnect", "gave_up", "fault", "none")
    /\ UNCHANGED calls
    /\ UNCHANGED <<ci, pi, result, evidence_id, ticket_number, ticket_sys_id,
                   merkle_leaves, txn_failed, evidence, control_runs,
                   trust_envelopes, store, clock, run_start, nfaults, appended>>

\* the process is stopped between two cycles (asleep, reconnecting or ended)
\* and started again: main() up to the loop, with a fresh connection and a
\* MerkleTree seeded from the store
Restart ==
    /\ CanFault
    /\ pc \in {"idle", "reconnect", "exited"}
    /\ nfaults' = nfaults + 1
    /\ \E existing_leaves \in get_evidence_leaf_hashes :
          merkle_leaves' = existing_leaves
    /\ txn_failed' = FALSE
    /\ pc' = "idle"
    /\ ci' = 0
    /\ pi' = 0
    /\ result' = NoResult
    /\ evidence_id' = 0
    /\ ticket_number' = 0
    /\ ticket_sys_id' = NoSysId
    /\ ev' = Event("Restart", "ok", "none", "none")
    /\ UNCHANGED calls
    /\ UNCHANGED <<evidence, control_runs, trust_envelopes, store, clock,
                   run_start, appended>>

\* PATCH /api/now/table/incident/{sys_id} by an operator of the ticketing
\* system: the incident moves on to in progress (2) or resolved (6). The agent
\* reads incidents only in its ticketing step, so the updates are taken
\* between two cycles; ev keeps the agent's last step.
UpdateIncident ==
    /\ pc = "idle"
    /\ \E k \in 1..Len(store), s \in {2, 6} :
          /\ store[k].state < s
          /\ store' = [store EXCEPT ![k].state = s]
    /\ UNCHANGED calls
    /\ UNCHANGED <<pc, ci, pi, result, evidence_id, ticket_number,
                   ticket_sys_id, merkle_leaves, txn_failed, evidence,
                   control_runs, trust_envelopes, clock, run_start, nfaults, appended, ev>>

Next ==
    \/ StartCycle
    \/ SkipUnknownCheck
    \/ SignFails
    \/ InsertEvidenceFails
    \/ BuildClaimFails
    \/ CollectEvidence
    \/ StoreEnvelope
    \/ EnvelopeBuildFails
    \/ EnvelopeInsertFails
    \/ EnvelopeInsertRefused
    \/ ReuseTicket
    \/ CreateTicket
    \/ CreateTicketFails
    \/ TicketLookupFails
    \/ LastTicketQueryFails
    \/ InsertRun
    \/ InsertRunFails
    \/ Reconnect
    \/ ReconnectFails
    \/ Restart
    \/ UpdateIncident

Spec == Init /\ [][Next]_vars

\* the steps of the agent process itself: run_cycle and the loop of main().
\* Restart and UpdateIncident are steps of the operators.
AgentStep ==
    \/ StartCycle
    \/ SkipUnknownCheck
    \/ SignFails
    \/ InsertEvidenceFails
    \/ BuildClaimFails
    \/ CollectEvidence
    \/ StoreEnvelope
    \/ EnvelopeBuildFails
    \/ EnvelopeInsertFails
    \/ EnvelopeInsertRefused
    \/ ReuseTicket
    \/ CreateTicket
    \/ CreateTicketFails
    \/ TicketLookupFails
    \/ LastTicketQueryFails
    \/ InsertRun
    \/ InsertRunFails
    \/ Reconnect
    \/ ReconnectFails

\* the agent is one sequential process: every call of run_cycle returns or
\* raises (the HTTP calls carry timeouts), and main() sleeps a finite interval
\* between two cycles, so the process takes its next step whenever it has one
FairSpec == Init /\ [][Next]_vars /\ WF_vars(AgentStep)

(***************************************************************************)
(* dashboard/app.py, page Evidence: Merkle inclusion status of a row       *)
(***************************************************************************)
EnvelopesOf(cid) ==
    {k \in RowIds(trust_envelopes) : trust_envelopes[k].control_id = cid}

\* root_by_control: merkle_root of the latest envelope of the control
root_by_control(cid) ==
    IF EnvelopesOf(cid) = {} THEN NoRoot
    ELSE trust_envelopes[CHOOSE k \in EnvelopesOf(cid) :
                            \A j \in EnvelopesOf(cid) : j <= k].merkle_root

\* merkle_status of evidence row k, all_leaves being the leaf hashes by index
merkle_status(k, all_leaves) ==
    LET idx == evidence[k].merkle_index
        expected_root == root_by_control(evidence[k].control_id)
    IN  IF expected_root # NoRoot /\ 0 <= idx /\ idx < Len(all_leaves)
        THEN IF verify_proof(get_proof(all_leaves, idx).leaf_hash,
                             get_proof(all_leaves, idx).proof_hashes,
                             expected_root)
             THEN "VALID" ELSE "INVALID"
        ELSE "N/A"

(***************************************************************************)
(* Properties                                                              *)
(***************************************************************************)

(***************************************************************************)
(* crypto/merkle.py called on its own: one MerkleTree filled by append     *)
(* (merkle_leaves, from the items of arg) and a second one seeded from the *)
(* leaf hashes of the first (seeded); out is the last call's outcome.      *)
(***************************************************************************)
MaxLeaves == 4

\* the evidence items the calls draw from
Items ==
    {[control_id |-> "LA.01", check |-> "new_access_no_approval",
      collected_at |-> 1, status |-> "pass",
      summary |-> CheckSummary("new_access_no_approval", 0)],
     [control_id |-> "LA.02", check |-> "terminations_sla",
      collected_at |-> 2, status |-> "fail",
      summary |-> CheckSummary("terminations_sla", 1)]}

\* the variables of the agent, which these calls leave alone
agent_vars ==
    <<pc, ci, pi, result, evidence_id, ticket_number, ticket_sys_id,
      txn_failed, evidence, control_runs, trust_envelopes, store, clock,
      run_start, nfaults, appended, ev>>

\* MerkleTree.append: _leaves after the call (the call returns the last leaf)
append(leaves, item) == Append(leaves, _hash_leaf(item))

\* a variant that puts the pre-computed hash in front
append_leaf_hash_front(leaves, leaf_hash) == <<leaf_hash>> \o leaves

\* MerkleTree.append_leaf_hash: _leaves after the call
append_leaf_hash(leaves, leaf_hash) == Append(leaves, leaf_hash)

\* MerkleTree.load_leaves: _leaves after the call
load_leaves(leaf_hashes) == leaf_hashes

\* a variant without the range test, for which Python's negative indices wrap
get_proof_unguarded(leaves, index) ==
    IF leaves = <<>> \/ index >= Len(leaves)
    THEN [exc |-> "IndexError"]
    ELSE [exc |-> "none", value |-> get_proof(leaves, index % Len(leaves))]

\* MerkleTree.get_proof with its range test: the proof, or IndexError
MerkleTree_get_proof(leaves, index) ==
    IF index < 0 \/ index >= Len(leaves)
    THEN [exc |-> "IndexError"]
    ELSE [exc |-> "none", value |-> get_proof(leaves, index)]

MerkleAppend ==
    /\ Len(merkle_leaves) < MaxLeaves
    /\ \E item \in Items :
          /\ arg' = Append(arg, item)
          /\ merkle_leaves' = append(merkle_leaves, item)
          /\ out' = [op |-> "append", value |-> _hash_leaf(item)]
    /\ UNCHANGED seeded
    /\ UNCHANGED agent_vars
    /\ UNCHANGED keys
    /\ UNCHANGED service

\* main: for lh in existing_leaves: merkle_tree.append_leaf_hash(lh)
MerkleAppendLeafHash ==
    /\ Len(seeded) < Len(merkle_leaves)
    /\ seeded' = append_leaf_hash(seeded, merkle_leaves[Len(seeded) + 1])
    /\ out' = [op |-> "append_leaf_hash"]
    /\ UNCHANGED <<merkle_leaves, arg>>
    /\ UNCHANGED agent_vars
    /\ UNCHANGED keys
    /\ UNCHANGED service

MerkleLoadLeaves ==
    /\ seeded # merkle_leaves
    /\ seeded' = load_leaves(merkle_leaves)
    /\ out' = [op |-> "load_leaves"]
    /\ UNCHANGED <<merkle_leaves, arg>>
    /\ UNCHANGED agent_vars
    /\ UNCHANGED keys
    /\ UNCHANGED service

MerkleGetProof ==
    /\ \E index \in -1..MaxLeaves :
          out' = [op |-> "get_proof", index |-> index,
                  res |-> MerkleTree_get_proof(merkle_leaves, index)]
    /\ UNCHANGED <<merkle_leaves, seeded, arg>>
    /\ UNCHANGED agent_vars
    /\ UNCHANGED keys
    /\ UNCHANGED service
\* an evidence item that is in no log
ForgedItem ==
    [control_id |-> "LA.02", check |-> "terminations_sla",
     collected_at |-> 0, status |-> "error", summary |-> [error |-> "forged"]]

\* the digests a changed field may take: every node of the tree, and the
\* leaf hash of an item outside the log
Digests(leaves) ==
    LET levels == _build_tree(leaves)
    IN  {levels[l][k] : <<l, k>> \in
            {x \in (1..Len(levels)) \X (1..Len(leaves)) : x[2] <= Len(levels[x[1]])}}
        \cup {_hash_leaf(ForgedItem)}

\* the three arguments of verify_proof for a proof of the log, one of them
\* replaced by the digest v: field is "none", "leaf_hash", "root_hash" or
\* "proof_hashes" (then entry j)
Tampered(proof, expected_root, field, j, v) ==
    [leaf_hash |-> IF field = "leaf_hash" THEN v ELSE proof.leaf_hash,
     proof_hashes |-> IF field = "proof_hashes"
                      THEN [proof.proof_hashes EXCEPT ![j].hash = v]
                      ELSE proof.proof_hashes,
     root_hash |-> IF field = "root_hash" THEN v ELSE expected_root]

\* verify_proof called with the last proof and the root of the log, as they
\* are or with one field replaced by a different digest
MerkleVerifyProof ==
    /\ out.op = "get_proof"
    /\ out.res.exc = "none"
    /\ \E field \in {"none", "leaf_hash", "root_hash", "proof_hashes"},
          j \in 0..Len(out.res.value.proof_hashes),
          v \in Digests(merkle_leaves) :
          LET proof == out.res.value
              a == Tampered(proof, root(merkle_leaves), field, j, v)
          IN  /\ (field = "proof_hashes") = (j > 0)
              /\ field = "none" => v = proof.leaf_hash
              /\ field = "leaf_hash" => v # proof.leaf_hash
              /\ field = "root_hash" => v # root(merkle_leaves)
              /\ field = "proof_hashes" => v # proof.proof_hashes[j].hash
              /\ out' = [op |-> "verify_proof", index |-> proof.index,
                         field |-> field, entry |-> j, args |-> a,
                         ok |-> verify_proof(a.leaf_hash, a.proof_hashes,
                                             a.root_hash)]
    /\ UNCHANGED <<merkle_leaves, seeded, arg>>
    /\ UNCHANGED agent_vars
    /\ UNCHANGED keys
    /\ UNCHANGED service

MerkleNext ==
    \/ MerkleAppend
    \/ MerkleAppendLeafHash
    \/ MerkleLoadLeaves
    \/ MerkleGetProof
    \/ MerkleVerifyProof

MerkleSpec == Init /\ [][MerkleNext]_vars

(***************************************************************************)
(* claims.py called on its own: arg is the CheckResult and the control id  *)
(* that build_claim is given, out the result grade and the confidence of   *)
(* the Claim it returns. A confidence is kept in units of 1/ConfScale.     *)
(***************************************************************************)
MaxCount == 3

\* the summary keys _compute_confidence reads
SummaryKeys ==
    {"recent_users_checked", "missing_approval",
     "disabled_users_with_sla_tracking", "sla_breaches"}

\* summaries: any of the keys present, with a count
Summaries == UNION {[K -> 0..MaxCount] : K \in SUBSET SummaryKeys}

\* CheckResult.findings: the accounts a check reports, none to two of them
FindingLists ==
    {<<>>,
     <<[username |-> "alice", days_overdue |-> 1]>>,
     <<[username |-> "alice", days_overdue |-> 1],
       [username |-> "bob", days_overdue |-> 2]>>}

ClaimArgs ==
    [status : {"pass", "fail", "error"},
     summary : Summaries,
     findings : FindingLists,
     ctrl_id : {"LA.01", "LA.02", "LA.03", "LA.04", "LA.77"}]

\* a variant that grades by _map_result, which knows no PARTIAL
claim_result_by_status(res, confidence) ==
    IF res.status = "pass" THEN "SATISFIED"
    ELSE IF res.status = "fail" THEN "NOT_SATISFIED"
    ELSE "INDETERMINATE"

\* build_claim: the result grade
claim_result(res, confidence) ==
    IF res.status = "pass" THEN "SATISFIED"
    ELSE IF res.status = "error" THEN "INDETERMINATE"
    ELSE IF 0 < confidence /\ confidence < ConfScale THEN "PARTIAL"
    ELSE "NOT_SATISFIED"

\* a caveat or a recommendation: the template it was made from and the
\* account it names ("" when it names none)
Text(template, subject) == [template |-> template, subject |-> subject]

\* _build_caveats: the caveats list
_build_caveats(res, ctrl_id) ==
    IF res.status = "error" THEN <<Text("check_error", "")>>
    ELSE (IF ctrl_id = "LA.01" /\ res.status = "fail"
          THEN <<Text("missing_approval", "")>> ELSE <<>>)
         \o (IF ctrl_id = "LA.02" /\ res.status = "fail"
             THEN [k \in 1..Len(res.findings) |->
                      Text("overdue", res.findings[k].username)]
             ELSE <<>>)
         \o (IF ctrl_id = "LA.03" /\ res.status = "fail"
             THEN (IF "days_since_uar" \notin DOMAIN res.summary
                   THEN <<Text("no_uar_date", "")>>
                   ELSE <<Text("uar_overdue", "")>>)
             ELSE <<>>)
         \o (IF ctrl_id = "LA.04" /\ res.status = "fail"
             THEN <<Text("excess_admins", "")>> ELSE <<>>)

\* _build_recommendations: the recommendations list
_build_recommendations(res, ctrl_id) ==
    IF res.status \in {"pass", "error"} THEN <<>>
    ELSE IF ctrl_id \in {"LA.01", "LA.02", "LA.03", "LA.04"}
         THEN [k \in 1..3 |-> Text(ctrl_id, "")]
         ELSE <<Text("generic", "")>>

\* build_claim(result, evidence_id, ctrl, ...): result, confidence, caveats
\* and recommendations of the Claim
ClaimOf(res, ctrl_id) ==
    LET confidence == _compute_confidence(res, ctrl_id)
    IN  [result |-> claim_result(res, confidence),
         confidence |-> confidence,
         caveats |-> _build_caveats(res, ctrl_id),
         recommendations |-> _build_recommendations(res, ctrl_id)]

ClaimInit ==
    /\ AgentInit
    /\ NoKeys
    /\ NoRequests
    /\ seeded = <<>>
    /\ arg \in ClaimArgs
    /\ out = NoOut

BuildClaim ==
    /\ out = NoOut
    /\ out' = [op |-> "build_claim",
               claim |-> ClaimOf([status |-> arg.status, summary |-> arg.summary,
                                  findings |-> arg.findings],
                                 arg.ctrl_id)]
    /\ UNCHANGED <<merkle_leaves, seeded, arg>>
    /\ UNCHANGED agent_vars
    /\ UNCHANGED keys
    /\ UNCHANGED service

ClaimNext == BuildClaim

ClaimSpec == ClaimInit /\ [][ClaimNext]_vars

(***************************************************************************)
(* envelope.py called on its own: arg is the list of the confidences of    *)
(* the claims build_trust_envelope is given, out the composite confidence  *)
(* and the trust level of the envelope and of the row that is stored.      *)
(***************************************************************************)
MaxClaims == 2

\* the confidences the claims draw from: the band limits and their neighbours
Confidences ==
    {0, 1000, 2999, 3000, 5499, 5500, 7499, 7500, 9000, 9499, 9500, 10000}

ClaimLists == UNION {[1..n -> Confidences] : n \in 0..MaxClaims}

\* a variant whose band limits belong to the lower band
compute_trust_level_strict(composite_confidence) ==
    IF 100 * composite_confidence > 95 * ConfScale THEN "VERIFIED"
    ELSE IF 100 * composite_confidence > 75 * ConfScale THEN "HIGH"
    ELSE IF 100 * composite_confidence > 55 * ConfScale THEN "MEDIUM"
    ELSE IF 100 * composite_confidence > 30 * ConfScale THEN "LOW"
    ELSE "CRITICAL"

compute_trust_level(composite_confidence) ==
    IF 100 * composite_confidence >= 95 * ConfScale THEN "VERIFIED"
    ELSE IF 100 * composite_confidence >= 75 * ConfScale THEN "HIGH"
    ELSE IF 100 * composite_confidence >= 55 * ConfScale THEN "MEDIUM"
    ELSE IF 100 * composite_confidence >= 30 * ConfScale THEN "LOW"
    ELSE "CRITICAL"

\* build_trust_envelope: the fields of the envelope computed from the claims
TrustEnvelopeOf(confs, composite_confidence) ==
    [claims |-> confs,
     trust_level |-> compute_trust_level(composite_confidence),
     composite_confidence |-> composite_confidence]

\* db.insert_trust_envelope: the columns of the row and the document kept in
\* envelope_data, all taken from envelope.to_dict()
TrustEnvelopeRow(envelope) ==
    [trust_level |-> envelope.trust_level,
     composite_confidence |-> envelope.composite_confidence,
     envelope_data |-> envelope]

EnvelopeInit ==
    /\ AgentInit
    /\ NoKeys
    /\ NoRequests
    /\ seeded = <<>>
    /\ arg \in ClaimLists
    /\ out = NoOut

BuildTrustEnvelope ==
    /\ out = NoOut
    /\ \E composite_confidence \in composite_confidences(arg) :
          out' = [op |-> "build_trust_envelope",
                  row |-> TrustEnvelopeRow(
                              TrustEnvelopeOf(arg, composite_confidence))]
    /\ UNCHANGED <<merkle_leaves, seeded, arg>>
    /\ UNCHANGED agent_vars
    /\ UNCHANGED keys
    /\ UNCHANGED service

EnvelopeNext == BuildTrustEnvelope

EnvelopeSpec == EnvelopeInit /\ [][EnvelopeNext]_vars

(***************************************************************************)
(* crypto/keys.py: _canonical, and json.loads on what it produced. A       *)
(* Python value is a record tagged by its type; a string is the sequence   *)
(* of its character codes. JSON text is kept as the tree of its tokens in  *)
(* the order they are written: with the fixed separators and no white      *)
(* space two texts are equal byte for byte iff their trees are equal.      *)
(***************************************************************************)
MaxMembers == 2

PyInt(n) == [t |-> "int", n |-> n]
PyStr(s) == [t |-> "str", s |-> s]
PyDatetime(s) == [t |-> "datetime", s |-> s]
PyFloat(n) == [t |-> "float", n |-> n]
PyList(xs) == [t |-> "list", xs |-> xs]
PyDict(items) == [t |-> "dict", items |-> items]

\* a str that holds the base64 text of a signature
PySignature(b64) == [t |-> "signature", b64 |-> b64]

\* str(n) for n >= 0: the decimal digits
RECURSIVE str(_)
str(n) == IF n < 10 THEN <<48 + n>> ELSE str(n \div 10) \o <<48 + (n % 10)>>

\* a < b on Python strings: by code point, a proper prefix first
RECURSIVE LexLess(_, _)
LexLess(a, b) ==
    IF a = <<>> THEN b # <<>>
    ELSE IF b = <<>> THEN FALSE
    ELSE IF a[1] # b[1] THEN a[1] < b[1]
    ELSE LexLess(Tail(a), Tail(b))

\* a < b on dict keys of one type: ints by value, strings by code point
KeyLess(a, b) == IF a.t = "int" THEN a.n < b.n ELSE LexLess(a.s, b.s)

\* sorted(dct.items()): the items by their keys as they are in the dict,
\* before a key is turned into text
RECURSIVE sorted(_)
sorted(items) ==
    IF items = <<>> THEN <<>>
    ELSE LET m == CHOOSE i \in 1..Len(items) :
                     \A j \in 1..Len(items) : ~KeyLess(items[j].k, items[i].k)
         IN  <<items[m]>>
             \o sorted([i \in 1..(Len(items) - 1) |->
                           IF i < m THEN items[i] ELSE items[i + 1]])

\* the member name json writes for a key: an int key is written as its digits
KeyText(k) == IF k.t = "int" THEN str(k.n) ELSE k.s

\* json.dumps(v, sort_keys=sort_keys, separators=(",", ":"), default=str)
RECURSIVE dumps(_, _)
dumps(v, sort_keys) ==
    CASE v.t = "int" -> [j |-> "number", n |-> v.n]
      [] v.t = "float" -> [j |-> "real", n |-> v.n]
      [] v.t = "signature" -> [j |-> "b64", b64 |-> v.b64]
      [] v.t = "str" -> [j |-> "string", s |-> v.s]
      [] v.t = "datetime" -> [j |-> "string", s |-> v.s]
      [] v.t = "list" ->
            [j |-> "array", xs |-> [i \in 1..Len(v.xs) |-> dumps(v.xs[i], sort_keys)]]
      [] v.t = "dict" ->
            LET order == IF sort_keys THEN sorted(v.items) ELSE v.items
            IN  [j |-> "object",
                 members |-> [i \in 1..Len(order) |->
                                 [name |-> KeyText(order[i].k),
                                  value |-> dumps(order[i].v, sort_keys)]]]

_canonical(payload) == dumps(payload, TRUE)

\* json.loads: every member name becomes a str key (the names met here are
\* distinct)
RECURSIVE loads(_)
loads(doc) ==
    CASE doc.j = "number" -> PyInt(doc.n)
      [] doc.j = "real" -> PyFloat(doc.n)
      [] doc.j = "b64" -> PySignature(doc.b64)
      [] doc.j = "string" -> PyStr(doc.s)
      [] doc.j = "array" -> PyList([i \in 1..Len(doc.xs) |-> loads(doc.xs[i])])
      [] doc.j = "object" ->
            PyDict([i \in 1..Len(doc.members) |->
                       [k |-> PyStr(doc.members[i].name),
                        v |-> loads(doc.members[i].value)]])

\* an int, the string "a" and a timestamp (not native to JSON)
Scalars == {PyInt(7), PyStr(<<97>>), PyDatetime(<<50, 48, 50, 54>>)}

\* the keys of a dict, of one type: the strings "10", "2", "a", or the ints
\* 2, 3, 10
KeySets ==
    {{PyStr(<<49, 48>>), PyStr(<<50>>), PyStr(<<97>>)},
     {PyInt(2), PyInt(3), PyInt(10)}}

\* the items of a dict in insertion order: distinct keys, values from V
ItemLists(V) ==
    UNION {{f \in [1..n -> [k : K, v : V]] :
               \A a, b \in 1..n : a # b => f[a].k # f[b].k} :
           <<n, K>> \in (0..MaxMembers) \X KeySets}

Dicts == {PyDict(items) : items \in ItemLists(Scalars)}

\* scalars, dicts, and a dict nested in a list or in a dict
Values ==
    Scalars \cup Dicts \cup {PyList(<<d>>) : d \in Dicts}
    \cup {PyDict(<<[k |-> PyStr(<<97>>), v |-> d]>>) : d \in Dicts}

CanonInit ==
    /\ AgentInit
    /\ NoKeys
    /\ NoRequests
    /\ seeded = <<>>
    /\ arg \in Values
    /\ out = NoOut

CanonicalCall ==
    /\ out = NoOut
    /\ out' = [op |-> "canonical", first |-> _canonical(arg)]
    /\ UNCHANGED <<merkle_leaves, seeded, arg>>
    /\ UNCHANGED agent_vars
    /\ UNCHANGED keys
    /\ UNCHANGED service

\* canonical(parse(text)) for the text the first call produced
CanonicalOfParsed ==
    /\ out.op = "canonical"
    /\ out' = [op |-> "reparsed", first |-> out.first,
               again |-> _canonical(loads(out.first))]
    /\ UNCHANGED <<merkle_leaves, seeded, arg>>
    /\ UNCHANGED agent_vars
    /\ UNCHANGED keys
    /\ UNCHANGED service

CanonNext ==
    \/ CanonicalCall
    \/ CanonicalOfParsed

CanonSpec == CanonInit /\ [][CanonNext]_vars

(***************************************************************************)
(* crypto/keys.py KeyPair and the three records the agent signs and        *)
(* stores: the evidence payload, the Claim and the TrustEnvelope.          *)
(* key_file is the key kept in signing_key.pem (0: no file), key_pair the  *)
(* key of the running process (0: no process). A key is a number; an       *)
(* Ed25519 signature is the pair of the key and the bytes that were        *)
(* signed, and it verifies under that key for those bytes only. In this    *)
(* part a row of evidence or trust_envelopes carries the columns the       *)
(* signature is about, and nfaults counts the removals of the key files.   *)
(***************************************************************************)
MaxSigned == 2

\* the text of the field names and of the string values, as character codes
Chars ==
       "control_id" :> <<99, 111, 110, 116, 114, 111, 108, 95, 105, 100>>
    @@ "control_name" :> <<99, 111, 110, 116, 114, 111, 108, 95, 110, 97,
           109, 101>>
    @@ "check" :> <<99, 104, 101, 99, 107>>
    @@ "collected_at" :> <<99, 111, 108, 108, 101, 99, 116, 101, 100, 95, 97,
           116>>
    @@ "collector" :> <<99, 111, 108, 108, 101, 99, 116, 111, 114>>
    @@ "realm" :> <<114, 101, 97, 108, 109>>
    @@ "status" :> <<115, 116, 97, 116, 117, 115>>
    @@ "summary" :> <<115, 117, 109, 109, 97, 114, 121>>
    @@ "error" :> <<101, 114, 114, 111, 114>>
    @@ "lookback_days" :> <<108, 111, 111, 107, 98, 97, 99, 107, 95, 100, 97,
           121, 115>>
    @@ "recent_users_checked" :> <<114, 101, 99, 101, 110, 116, 95, 117, 115,
           101, 114, 115, 95, 99, 104, 101, 99, 107, 101, 100>>
    @@ "missing_approval" :> <<109, 105, 115, 115, 105, 110, 103, 95, 97,
           112, 112, 114, 111, 118, 97, 108>>
    @@ "claim_id" :> <<99, 108, 97, 105, 109, 95, 105, 100>>
    @@ "domain" :> <<100, 111, 109, 97, 105, 110>>
    @@ "assertion" :> <<97, 115, 115, 101, 114, 116, 105, 111, 110>>
    @@ "result" :> <<114, 101, 115, 117, 108, 116>>
    @@ "confidence" :> <<99, 111, 110, 102, 105, 100, 101, 110, 99, 101>>
    @@ "evidence_refs" :> <<101, 118, 105, 100, 101, 110, 99, 101, 95, 114,
           101, 102, 115>>
    @@ "opinion" :> <<111, 112, 105, 110, 105, 111, 110>>
    @@ "caveats" :> <<99, 97, 118, 101, 97, 116, 115>>
    @@ "recommendations" :> <<114, 101, 99, 111, 109, 109, 101, 110, 100, 97,
           116, 105, 111, 110, 115>>
    @@ "scope" :> <<115, 99, 111, 112, 101>>
    @@ "valid_from" :> <<118, 97, 108, 105, 100, 95, 102, 114, 111, 109>>
    @@ "ttl_seconds" :> <<116, 116, 108, 95, 115, 101, 99, 111, 110, 100,
           115>>
    @@ "agent_id" :> <<97, 103, 101, 110, 116, 95, 105, 100>>
    @@ "agent_version" :> <<97, 103, 101, 110, 116, 95, 118, 101, 114, 115,
           105, 111, 110>>
    @@ "signature" :> <<115, 105, 103, 110, 97, 116, 117, 114, 101>>
    @@ "environment" :> <<101, 110, 118, 105, 114, 111, 110, 109, 101, 110,
           116>>
    @@ "products" :> <<112, 114, 111, 100, 117, 99, 116, 115>>
    @@ "systems" :> <<115, 121, 115, 116, 101, 109, 115>>
    @@ "envelope_id" :> <<101, 110, 118, 101, 108, 111, 112, 101, 95, 105,
           100>>
    @@ "product_id" :> <<112, 114, 111, 100, 117, 99, 116, 95, 105, 100>>
    @@ "claims" :> <<99, 108, 97, 105, 109, 115>>
    @@ "evidence_summary" :> <<101, 118, 105, 100, 101, 110, 99, 101, 95,
           115, 117, 109, 109, 97, 114, 121>>
    @@ "trust_level" :> <<116, 114, 117, 115, 116, 95, 108, 101, 118, 101,
           108>>
    @@ "composite_confidence" :> <<99, 111, 109, 112, 111, 115, 105, 116,
           101, 95, 99, 111, 110, 102, 105, 100, 101, 110, 99, 101>>
    @@ "domain_scores" :> <<100, 111, 109, 97, 105, 110, 95, 115, 99, 111,
           114, 101, 115>>
    @@ "disclosure_level" :> <<100, 105, 115, 99, 108, 111, 115, 117, 114,
           101, 95, 108, 101, 118, 101, 108>>
    @@ "valid_until" :> <<118, 97, 108, 105, 100, 95, 117, 110, 116, 105,
           108>>
    @@ "public_key" :> <<112, 117, 98, 108, 105, 99, 95, 107, 101, 121>>
    @@ "framework_mappings" :> <<102, 114, 97, 109, 101, 119, 111, 114, 107,
           95, 109, 97, 112, 112, 105, 110, 103, 115>>
    @@ "total_items" :> <<116, 111, 116, 97, 108, 95, 105, 116, 101, 109,
           115>>
    @@ "merkle_root" :> <<109, 101, 114, 107, 108, 101, 95, 114, 111, 111,
           116>>
    @@ "LA.01" :> <<76, 65, 46, 48, 49>>
    @@ "P1" :> <<80, 49>>
    @@ "pass" :> <<112, 97, 115, 115>>
    @@ "SATISFIED" :> <<83, 65, 84, 73, 83, 70, 73, 69, 68>>
    @@ "VERIFIED" :> <<86, 69, 82, 73, 70, 73, 69, 68>>
    @@ "FULL" :> <<70, 85, 76, 76>>
    @@ "SOC2" :> <<83, 79, 67, 50>>
    @@ "CC6.1" :> <<67, 67, 54, 46, 49>>
    @@ "meridian-agent" :> <<109, 101, 114, 105, 100, 105, 97, 110, 45, 97,
           103, 101, 110, 116>>
    @@ "master" :> <<109, 97, 115, 116, 101, 114>>

Item(name, v) == [k |-> PyStr(Chars[name]), v |-> v]

\* json.dumps without default= raises TypeError on a value that is not
\* native to JSON
RECURSIVE Native(_)
Native(v) ==
    CASE v.t \in {"int", "float", "str", "signature"} -> TRUE
      [] v.t = "datetime" -> FALSE
      [] v.t = "list" -> \A i \in 1..Len(v.xs) : Native(v.xs[i])
      [] v.t = "dict" -> \A i \in 1..Len(v.items) : Native(v.items[i].v)

\* the order in which a JSONB column keeps the members of an object: the
\* shorter name first, names of one length by their bytes
JsonbLess(a, b) == Len(a) < Len(b) \/ (Len(a) = Len(b) /\ LexLess(a, b))

RECURSIVE JsonbMembers(_)
JsonbMembers(members) ==
    IF members = <<>> THEN <<>>
    ELSE LET m == CHOOSE i \in 1..Len(members) :
                     \A j \in 1..Len(members) :
                        ~JsonbLess(members[j].name, members[i].name)
         IN  <<members[m]>>
             \o JsonbMembers([i \in 1..(Len(members) - 1) |->
                                 IF i < m THEN members[i] ELSE members[i + 1]])

\* the document a JSONB column returns for the text that was inserted
RECURSIVE jsonb(_)
jsonb(doc) ==
    CASE doc.j \in {"number", "real", "string", "b64"} -> doc
      [] doc.j = "array" ->
            [j |-> "array", xs |-> [i \in 1..Len(doc.xs) |-> jsonb(doc.xs[i])]]
      [] doc.j = "object" ->
            LET ms == JsonbMembers(doc.members)
            IN  [j |-> "object",
                 members |-> [i \in 1..Len(ms) |->
                                 [name |-> ms[i].name, value |-> jsonb(ms[i].value)]]]

\* base64.urlsafe_b64encode of the 64 signature bytes: the text ends with
\* two padding characters
b64encode(raw_sig) == [raw |-> raw_sig, padding |-> 2]

\* base64.urlsafe_b64decode of the text with extra appended: the decoder
\* needs the two padding characters and ignores further ones
b64decode(text, extra) ==
    IF text.padding + extra >= 2 THEN text.raw ELSE [key |-> 0, msg |-> <<>>]

\* a variant that signs the items in the order the dict holds them
KeyPair_sign_unsorted(key, payload) ==
    b64encode([key |-> key, msg |-> dumps(payload, FALSE)])

\* KeyPair.sign
KeyPair_sign(key, payload) ==
    b64encode([key |-> key, msg |-> _canonical(payload)])

\* KeyPair.verify under the public half of key
KeyPair_verify(key, payload, signature) ==
    LET sig_bytes == b64decode(signature, 2)
    IN  sig_bytes.key = key /\ sig_bytes.msg = _canonical(payload)

\* the summaries of a CheckResult: metrics, the message of an error, and
\* metrics with a parameter that controls.yaml gave as a date
SignedResults ==
    {[status |-> "pass",
      summary |-> PyDict(<<Item("lookback_days", PyInt(30)),
                           Item("recent_users_checked", PyInt(3)),
                           Item("missing_approval", PyInt(0))>>)],
     [status |-> "error",
      summary |-> PyDict(<<Item("error", PyStr(Chars["master"]))>>)],
     [status |-> "pass",
      summary |-> PyDict(<<Item("lookback_days", PyDatetime(<<50, 48, 50, 54>>)),
                           Item("recent_users_checked", PyInt(3)),
                           Item("missing_approval", PyInt(0))>>)]}

\* run_cycle: the evidence_payload dict, in the order it is written
PayloadDict(res) ==
    PyDict(<<Item("control_id", PyStr(Chars["LA.01"])),
             Item("control_name", PyStr(Chars["LA.01"])),
             Item("check", PyStr(Chars["check"])),
             Item("collected_at", PyStr(str(clock))),
             Item("collector", PyStr(Chars["meridian-agent"])),
             Item("realm", PyStr(Chars["master"])),
             Item("status", PyStr(Chars[res.status])),
             Item("summary", res.summary)>>)

\* Claim.signable_dict of the Claim build_claim makes
ClaimSignable(confidence) ==
    PyDict(<<Item("claim_id", PyStr(str(clock))),
             Item("domain", PyStr(Chars["domain"])),
             Item("assertion", PyStr(Chars["assertion"])),
             Item("result", PyStr(Chars["SATISFIED"])),
             Item("confidence", PyFloat(confidence)),
             Item("evidence_refs", PyList(<<PyStr(str(clock))>>)),
             Item("opinion", PyStr(Chars["opinion"])),
             Item("caveats", PyList(<<>>)),
             Item("recommendations", PyList(<<>>)),
             Item("scope",
                  PyDict(<<Item("environment", PyStr(Chars["environment"])),
                           Item("products", PyList(<<PyStr(Chars["P1"])>>)),
                           Item("systems", PyList(<<PyStr(Chars["systems"])>>)),
                           Item("realm", PyStr(Chars["master"]))>>)),
             Item("valid_from", PyStr(str(clock))),
             Item("ttl_seconds", PyInt(86400)),
             Item("agent_id", PyStr(Chars["agent_id"])),
             Item("agent_version", PyStr(Chars["agent_version"]))>>)

\* to_dict: d = signable_dict(); d["signature"] = signature
to_dict(signable, signature) ==
    PyDict(Append(signable.items,
                  Item("signature", PySignature(signature))))

\* TrustEnvelope.signable_dict of the envelope build_trust_envelope makes for
\* the claims (their to_dict forms) and the framework mappings of the control
EnvelopeSignable(claims, confidence, key, framework_mappings) ==
    PyDict(<<Item("envelope_id", PyStr(str(clock))),
             Item("control_id", PyStr(Chars["LA.01"])),
             Item("control_name", PyStr(Chars["LA.01"])),
             Item("product_id", PyStr(Chars["P1"])),
             Item("claims", PyList(claims)),
             Item("evidence_summary",
                  PyDict(<<Item("total_items", PyInt(1)),
                           Item("merkle_root", PyStr(Chars["merkle_root"]))>>)),
             Item("trust_level", PyStr(Chars["VERIFIED"])),
             Item("composite_confidence", PyFloat(confidence)),
             Item("domain_scores", PyDict(<<>>)),
             Item("disclosure_level", PyStr(Chars["FULL"])),
             Item("valid_from", PyStr(str(clock))),
             Item("valid_until", PyStr(str(clock + 1))),
             Item("agent_id", PyStr(Chars["agent_id"])),
             Item("agent_version", PyStr(Chars["agent_version"])),
             Item("public_key", PyStr(str(key))),
             Item("framework_mappings", framework_mappings)>>)

\* ctrl.get("framework_mappings", {}): none, or one framework
FrameworkMappings ==
    {PyDict(<<>>),
     PyDict(<<Item("SOC2", PyList(<<PyStr(Chars["CC6.1"])>>))>>)}

\* the dict without its signature item
Unsigned(d) ==
    PyDict(SelectSeq(d.items, LAMBDA it : it.k # PyStr(Chars["signature"])))

\* the str value of the signature item of a dict
SignatureOf(d) ==
    LET i == CHOOSE i \in 1..Len(d.items) : d.items[i].k = PyStr(Chars["signature"])
    IN  d.items[i].v.b64

\* Ed25519PrivateKey.generate(): a key that was never made before. A key is
\* generated at the first start and after each removal of the key files.
FreshKey == nfaults + 1

SignInit ==
    /\ AgentInit
    /\ NoKeys
    /\ NoRequests
    /\ seeded = <<>>
    /\ arg = NoArg
    /\ out = NoOut

\* main: KeyPair.load_or_generate at the start of the process
LoadOrGenerate ==
    /\ key_pair = 0
    /\ IF key_file # 0
       THEN key_pair' = key_file /\ key_file' = key_file
       ELSE key_pair' = FreshKey /\ key_file' = FreshKey
    /\ out' = [op |-> "load_or_generate"]
    /\ UNCHANGED <<seeded, arg>>
    /\ UNCHANGED service
    /\ UNCHANGED <<pc, ci, pi, result, evidence_id, ticket_number,
                   ticket_sys_id, merkle_leaves, txn_failed, evidence,
                   control_runs, trust_envelopes, store, clock, run_start,
                   nfaults, appended, ev>>

\* the process ends
ProcessStops ==
    /\ key_pair # 0
    /\ key_pair' = 0
    /\ out' = [op |-> "stop"]
    /\ UNCHANGED <<seeded, arg, key_file>>
    /\ UNCHANGED service
    /\ UNCHANGED <<pc, ci, pi, result, evidence_id, ticket_number,
                   ticket_sys_id, merkle_leaves, txn_failed, evidence,
                   control_runs, trust_envelopes, store, clock, run_start,
                   nfaults, appended, ev>>

\* the key directory is emptied while no process runs
KeyFilesRemoved ==
    /\ key_pair = 0
    /\ key_file # 0
    /\ CanFault
    /\ nfaults' = nfaults + 1
    /\ key_file' = 0
    /\ out' = [op |-> "remove"]
    /\ UNCHANGED <<seeded, arg, key_pair>>
    /\ UNCHANGED service
    /\ UNCHANGED <<pc, ci, pi, result, evidence_id, ticket_number,
                   ticket_sys_id, merkle_leaves, txn_failed, evidence,
                   control_runs, trust_envelopes, store, clock, run_start,
                   appended, ev>>

\* run_cycle: the payload is signed and db.insert_evidence stores it, or
\* json.dumps(raw_data) raises and no row is written
SignEvidence ==
    /\ key_pair # 0
    /\ clock <= MaxSigned
    /\ \E res \in SignedResults :
          LET payload == PayloadDict(res)
              sig == KeyPair_sign(key_pair, payload)
          IN  IF Native(payload)
              THEN /\ evidence' = Append(evidence,
                         [raw_data |-> jsonb(dumps(payload, FALSE)),
                          signature |-> sig,
                          removals |-> nfaults])
                   /\ out' = [op |-> "insert_evidence", exc |-> "none"]
              ELSE /\ evidence' = evidence
                   /\ out' = [op |-> "insert_evidence", exc |-> "TypeError"]
    /\ clock' = clock + 1
    /\ UNCHANGED <<seeded, arg, key_file, key_pair>>
    /\ UNCHANGED service
    /\ UNCHANGED <<pc, ci, pi, result, evidence_id, ticket_number,
                   ticket_sys_id, merkle_leaves, txn_failed, control_runs,
                   trust_envelopes, store, run_start, nfaults, appended, ev>>

\* run_cycle: build_claim signs the Claim, build_trust_envelope signs the
\* envelope that holds it and db.insert_trust_envelope stores the envelope
SignEnvelope ==
    /\ key_pair # 0
    /\ clock <= MaxSigned
    /\ \E confidence \in {ConfScale}, fm \in FrameworkMappings :
          LET claim == ClaimSignable(confidence)
              claim_d == to_dict(claim, KeyPair_sign(key_pair, claim))
              envelope == EnvelopeSignable(<<claim_d>>, confidence, key_pair, fm)
              d == to_dict(envelope, KeyPair_sign(key_pair, envelope))
          IN  trust_envelopes' = Append(trust_envelopes,
                  [envelope_data |-> jsonb(dumps(d, FALSE)),
                   signature |-> SignatureOf(d),
                   removals |-> nfaults])
    /\ out' = [op |-> "insert_trust_envelope", exc |-> "none"]
    /\ clock' = clock + 1
    /\ UNCHANGED <<seeded, arg, key_file, key_pair>>
    /\ UNCHANGED service
    /\ UNCHANGED <<pc, ci, pi, result, evidence_id, ticket_number,
                   ticket_sys_id, merkle_leaves, txn_failed, evidence,
                   control_runs, store, run_start, nfaults, appended, ev>>

SignNext ==
    \/ LoadOrGenerate
    \/ ProcessStops
    \/ KeyFilesRemoved
    \/ SignEvidence
    \/ SignEnvelope

SignSpec == SignInit /\ [][SignNext]_vars

(***************************************************************************)
(* ticketing/main.py served by several worker threads. store holds the     *)
(* incident dicts in creation order, the k-th under the key SysIdOf(k); a  *)
(* handler keeps a reference to a dict (ref), and the response is written  *)
(* from the dict as it is when the response is serialised, after the       *)
(* handler has left its with _lock block. clock is _now_str().             *)
(***************************************************************************)
MaxServed == 2

\* f"INC{n:07d}" for n below 10^7, as character codes
NumberText(n) ==
    <<73, 78, 67>> \o [i \in 1..7 |-> 48 + ((n \div (10 ^ (7 - i))) % 10)]

\* the body of a create request: no extra field, or the extra field number
CreateBodies ==
    {[state |-> 1, number |-> <<>>], [state |-> 1, number |-> NumberText(1)]}

\* the body of a PATCH request: the incident moves to in progress or resolved
UpdateBodies == {[state |-> 2, number |-> <<>>], [state |-> 6, number |-> <<>>]}

\* _build_record for the n-th call of _next_number: the extra fields of the
\* payload are laid over the fields written before them
IncidentRecord(payload, n, now) ==
    [number |-> IF payload.number # <<>> THEN payload.number ELSE NumberText(n),
     state |-> payload.state,
     opened_at |-> now,
     sys_updated_on |-> now]

\* the writes to incident k that were stored and not yet answered
Pending(k) ==
    {t \in Threads : /\ threads[t].pc = "respond"
                     /\ threads[t].op \in {"create", "patch"}
                     /\ threads[t].ref = k}

\* history: the number of versions of incident k whose write was answered
Answered(k) ==
    IF k \in 1..Len(committed)
    THEN Len(committed[k]) - Cardinality(Pending(k)) ELSE 0

TicketVars ==
    <<pc, ci, pi, result, evidence_id, ticket_number, ticket_sys_id,
      merkle_leaves, txn_failed, evidence, control_runs, trust_envelopes,
      run_start, nfaults, appended, ev, seeded, arg, out, key_file, key_pair>>

\* a request reaches a worker thread
Invoke(t) ==
    /\ threads[t].pc = "idle"
    /\ threads[t].served < MaxServed
    /\ \E op \in {"create", "get", "list", "patch"},
          target \in 1..MaxThreads,
          body \in CreateBodies \cup UpdateBodies \cup {NoBody} :
          /\ op = "create" => body \in CreateBodies /\ target = 1
          /\ op = "patch" => body \in UpdateBodies
          /\ op = "get" => body = NoBody
          /\ op = "list" => body = NoBody /\ target = 1
          /\ threads' = [threads EXCEPT ![t] =
                [pc |-> "handler", op |-> op,
                 target |-> IF op \in {"get", "patch"} THEN target ELSE 0,
                 body |-> body, ref |-> 0,
                 floor |-> IF op \in {"get", "patch"} THEN Answered(target)
                           ELSE 0,
                 response |-> NoResponse, served |-> threads[t].served]]
    /\ UNCHANGED <<store, clock, _lock, _counter, committed>>
    /\ UNCHANGED TicketVars

\* create_incident: with _lock: record = _build_record(payload); _store[...] = record
CreateIncident(t) ==
    /\ threads[t].pc = "handler"
    /\ threads[t].op = "create"
    /\ _lock = 0
    /\ LET record == IncidentRecord(threads[t].body, _counter + 1, clock)
       IN  /\ store' = Append(store, record)
           /\ committed' = Append(committed, <<record>>)
    /\ _counter' = _counter + 1
    /\ clock' = clock + 1
    /\ threads' = [threads EXCEPT ![t].pc = "respond", ![t].ref = Len(store) + 1]
    /\ UNCHANGED _lock
    /\ UNCHANGED TicketVars

\* get_incident: with _lock: record = _store.get(sys_id)
GetIncident(t) ==
    /\ threads[t].pc = "handler"
    /\ threads[t].op = "get"
    /\ _lock = 0
    /\ threads' = [threads EXCEPT
          ![t].pc = "respond",
          ![t].ref = IF threads[t].target <= Len(store)
                     THEN threads[t].target ELSE 0]
    /\ UNCHANGED <<store, clock, _lock, _counter, committed>>
    /\ UNCHANGED TicketVars

\* list_incidents: with _lock: all_records = list(_store.values())
ListIncidents(t) ==
    /\ threads[t].pc = "handler"
    /\ threads[t].op = "list"
    /\ _lock = 0
    /\ threads' = [threads EXCEPT ![t].pc = "respond", ![t].ref = Len(store)]
    /\ UNCHANGED <<store, clock, _lock, _counter, committed>>
    /\ UNCHANGED TicketVars

\* update_incident enters with _lock: record = _store.get(sys_id); a missing
\* record raises the 404 and leaves the block
UpdateLock(t) ==
    /\ threads[t].pc = "handler"
    /\ threads[t].op = "patch"
    /\ _lock = 0
    /\ IF threads[t].target <= Len(store)
       THEN /\ _lock' = t
            /\ threads' = [threads EXCEPT ![t].pc = "update",
                                          ![t].ref = threads[t].target]
       ELSE /\ _lock' = 0
            /\ threads' = [threads EXCEPT ![t].pc = "respond", ![t].ref = 0]
    /\ UNCHANGED <<store, clock, _counter, committed>>
    /\ UNCHANGED TicketVars

\* update_incident: record.update(updates)
UpdateFields(t) ==
    /\ threads[t].pc = "update"
    /\ store' = [store EXCEPT ![threads[t].ref].state = threads[t].body.state]
    /\ threads' = [threads EXCEPT ![t].pc = "stamp"]
    /\ UNCHANGED <<clock, _lock, _counter, committed>>
    /\ UNCHANGED TicketVars

\* update_incident: record["sys_updated_on"] = _now_str(); _store[sys_id] =
\* record; the block ends and the lock is given back
UpdateStamp(t) ==
    /\ threads[t].pc = "stamp"
    /\ LET k == threads[t].ref
           record == [store[k] EXCEPT !.sys_updated_on = clock]
       IN  /\ store' = [store EXCEPT ![k] = record]
           /\ committed' = [committed EXCEPT ![k] = Append(@, record)]
    /\ clock' = clock + 1
    /\ _lock' = 0
    /\ threads' = [threads EXCEPT ![t].pc = "respond"]
    /\ UNCHANGED _counter
    /\ UNCHANGED TicketVars

\* list_incidents: matched.sort(key=opened_at, reverse=True), no query
NewestFirst(n) == [i \in 1..n |-> store[n + 1 - i]]

\* the response is serialised from the dicts the handler returned
Respond(t) ==
    /\ threads[t].pc = "respond"
    /\ LET th == threads[t]
           response ==
              IF th.op = "list"
              THEN [code |-> 200, records |-> NewestFirst(th.ref)]
              ELSE IF th.ref = 0 THEN [code |-> 404, records |-> <<>>]
              ELSE [code |-> IF th.op = "create" THEN 201 ELSE 200,
                    records |-> <<store[th.ref]>>]
       IN  threads' = [threads EXCEPT ![t].pc = "idle",
                                      ![t].response = response,
                                      ![t].served = th.served + 1]
    /\ UNCHANGED <<store, clock, _lock, _counter, committed>>
    /\ UNCHANGED TicketVars

TicketNext ==
    \E t \in Threads :
        \/ Invoke(t)
        \/ CreateIncident(t)
        \/ GetIncident(t)
        \/ ListIncidents(t)
        \/ UpdateLock(t)
        \/ UpdateFields(t)
        \/ UpdateStamp(t)
        \/ Respond(t)

TicketSpec == Init /\ [][TicketNext]_vars

(***************************************************************************)
(* checks.py: terminations_sla called on its own. arg holds what           *)
(* kc.list_users returns (or that it raises), the sla_days parameter and   *)
(* the day of datetime.now; a date is the number of its day, and the       *)
(* attribute value is either an ISO text of a day or a text that           *)
(* datetime.fromisoformat rejects.                                         *)
(***************************************************************************)
MaxUsers == 3

\* attrs.get(term_attr, []): no value, a text that is no date, or a date
RawDates ==
    {<<>>, <<[iso |-> FALSE, day |-> 0]>>}
       \cup {<<[iso |-> TRUE, day |-> d]>> : d \in 1..3}

UserLists ==
    UNION {[1..n -> [enabled : BOOLEAN, raw : RawDates]] : n \in 0..MaxUsers}

\* datetime.fromisoformat(raw): the day, or ValueError (-1)
fromisoformat(raw) == IF raw.iso THEN raw.day ELSE -1

\* the loop of terminations_sla over the disabled users
RECURSIVE SlaLoop(_, _, _, _)
SlaLoop(disabled, k, sla_days, now) ==
    IF k > Len(disabled) THEN [tracked |-> 0, breaches |-> 0]
    ELSE LET rest == SlaLoop(disabled, k + 1, sla_days, now)
             raw_dates == disabled[k].raw
         IN  IF raw_dates = <<>> THEN rest
             ELSE IF fromisoformat(raw_dates[1]) = -1
                  THEN [rest EXCEPT !.tracked = @ + 1]
             ELSE IF now - fromisoformat(raw_dates[1]) > sla_days
                  THEN [tracked |-> rest.tracked + 1,
                        breaches |-> rest.breaches + 1]
             ELSE [rest EXCEPT !.tracked = @ + 1]

IsDisabled(u) == ~u.enabled

terminations_sla(users, raises, sla_days, now) ==
    IF raises
    THEN [status |-> "error",
          summary |-> [sla_days |-> sla_days,
                       disabled_users_with_sla_tracking |-> 0,
                       sla_breaches |-> 0,
                       error |-> TRUE]]
    ELSE LET counted == SlaLoop(SelectSeq(users, IsDisabled), 1, sla_days, now)
         IN  [status |-> IF counted.breaches > 0 THEN "fail" ELSE "pass",
              summary |-> [sla_days |-> sla_days,
                           disabled_users_with_sla_tracking |-> counted.tracked,
                           sla_breaches |-> counted.breaches,
                           error |-> FALSE]]

CheckInit ==
    /\ AgentInit
    /\ NoKeys
    /\ NoRequests
    /\ seeded = <<>>
    /\ arg \in [users : UserLists, raises : BOOLEAN, sla_days : 1..2,
                now : 3..4]
    /\ out = NoOut

TerminationsSla ==
    /\ out = NoOut
    /\ out' = [op |-> "terminations_sla",
               result |-> terminations_sla(arg.users, arg.raises,
                                           arg.sla_days, arg.now)]
    /\ UNCHANGED <<merkle_leaves, seeded, arg>>
    /\ UNCHANGED agent_vars
    /\ UNCHANGED keys
    /\ UNCHANGED service

CheckNext == TerminationsSla

CheckSpec == CheckInit /\ [][CheckNext]_vars

(***************************************************************************)
(* keycloak_client.py: KeycloakClient._get, call after call on one client. *)
(* out holds the client (_token, 0 for None; tokens are numbered as they   *)
(* are fetched) and the position in the current call with, as history,     *)
(* the status of every GET sent and the number of tokens fetched after a   *)
(* 401 in that call. A GET is recorded with its path, the token in its     *)
(* header and the status of the answer; status 0 stands for a request that *)
(* raises before any response arrives (connection error, timeout).         *)
(***************************************************************************)
MaxRequests == 2

Statuses == {0, 200, 401, 403, 500}

\* the paths list_users and get_realm ask for
Paths == {"/users", ""}

\* requests.get(url, headers=self._headers(), params=params, timeout=15)
requests_get(path, token, status) == [path |-> path, token |-> token, status |-> status]

\* if resp.status_code == 401
ShouldRetryAnyError(status) == status \notin {0, 200}

ShouldRetry(status) == status = 401

KcIdle(token, fetched, done, outcome) ==
    [op |-> "_get", pc |-> "idle", _token |-> token, fetched |-> fetched,
     path |-> "", sent |-> <<>>, refreshes |-> 0, calls |-> done,
     result |-> outcome]

KcInit ==
    /\ AgentInit
    /\ NoKeys
    /\ NoRequests
    /\ seeded = <<>>
    /\ arg = NoArg
    /\ out = KcIdle(0, 0, 0, "none")

KcFrame ==
    /\ UNCHANGED <<merkle_leaves, seeded, arg>>
    /\ UNCHANGED agent_vars
    /\ UNCHANGED keys
    /\ UNCHANGED service

\* _get is called; _headers() fetches a token when the client has none
Headers ==
    /\ out.pc = "idle"
    /\ out.calls < MaxRequests
    /\ \E fetch_ok \in BOOLEAN, path \in Paths :
          out' = IF out._token # 0
                 THEN [out EXCEPT !.pc = "send", !.sent = <<>>, !.refreshes = 0,
                                  !.result = "none", !.path = path]
                 ELSE IF fetch_ok
                 THEN [out EXCEPT !.pc = "send", !.sent = <<>>, !.refreshes = 0,
                                  !.result = "none", !.path = path,
                                  !._token = out.fetched + 1,
                                  !.fetched = out.fetched + 1]
                 ELSE KcIdle(0, out.fetched, out.calls + 1, "raised")
    /\ KcFrame

\* resp = requests.get(url, headers, params): the first attempt
Send ==
    /\ out.pc = "send"
    /\ \E status \in Statuses :
          out' = IF status = 0
                 THEN [KcIdle(out._token, out.fetched, out.calls + 1, "raised")
                          EXCEPT !.sent = <<requests_get(out.path, out._token, 0)>>,
                                 !.path = out.path]
                 ELSE [out EXCEPT !.sent = <<requests_get(out.path, out._token, status)>>,
                                  !.pc = IF ShouldRetry(status) THEN "refresh"
                                         ELSE "status"]
    /\ KcFrame

\* self._token = self._fetch_token() after a 401
Refresh ==
    /\ out.pc = "refresh"
    /\ \E fetch_ok \in BOOLEAN :
          out' = IF fetch_ok
                 THEN [out EXCEPT !.pc = "resend",
                                  !._token = out.fetched + 1,
                                  !.fetched = out.fetched + 1,
                                  !.refreshes = out.refreshes + 1]
                 ELSE [KcIdle(out._token, out.fetched, out.calls + 1, "raised")
                          EXCEPT !.sent = out.sent, !.path = out.path]
    /\ KcFrame

\* resp = requests.get(url, headers, params): the same request again
Resend ==
    /\ out.pc = "resend"
    /\ \E status \in Statuses :
          out' = IF status = 0
                 THEN [KcIdle(out._token, out.fetched, out.calls + 1, "raised")
                          EXCEPT !.sent = Append(out.sent,
                                             requests_get(out.path, out._token, 0)),
                                 !.refreshes = out.refreshes,
                                 !.path = out.path]
                 ELSE [out EXCEPT !.sent = Append(out.sent,
                                      requests_get(out.path, out._token, status)),
                                  !.pc = "status"]
    /\ KcFrame

\* resp.raise_for_status(); return resp.json()
RaiseForStatus ==
    /\ out.pc = "status"
    /\ out' = [out EXCEPT
          !.pc = "idle",
          !.calls = out.calls + 1,
          !.result = IF out.sent[Len(out.sent)].status = 200 THEN "returned"
                     ELSE "raised"]
    /\ KcFrame

KcNext ==
    \/ Headers
    \/ Send
    \/ Refresh
    \/ Resend
    \/ RaiseForStatus

KcSpec == KcInit /\ [][KcNext]_vars

(***************************************************************************)
(* run_cycle from the CheckResult to the envelope of one product, called   *)
(* on its own: arg is what a check found (the size of the population it    *)
(* looked at and the number of accounts at fault, or that listing the      *)
(* users raised), out the claim and the envelope built from that claim.    *)
(***************************************************************************)
MaxPopulation == 20

\* the CheckResult of new_access_no_approval (LA.01), terminations_sla
\* (LA.02) or one of the binary checks (LA.03), without its findings
CheckResultFor(ctrl_id, whole, part, raises) ==
    IF raises
    THEN [status |-> "error", summary |-> [error |-> 1], findings |-> <<>>]
    ELSE [status |-> IF part > 0 THEN "fail" ELSE "pass",
          summary |->
             IF ctrl_id = "LA.01"
             THEN [recent_users_checked |-> whole, missing_approval |-> part]
             ELSE IF ctrl_id = "LA.02"
             THEN [disabled_users_with_sla_tracking |-> whole,
                   sla_breaches |-> part]
             ELSE [compliant |-> part],
          findings |-> <<>>]

PostureInit ==
    /\ AgentInit
    /\ NoKeys
    /\ NoRequests
    /\ seeded = <<>>
    /\ arg \in {a \in [ctrl_id : {"LA.01", "LA.02", "LA.03"},
                       whole : 0..MaxPopulation,
                       part : 0..MaxPopulation,
                       raises : BOOLEAN] : a.part <= a.whole}
    /\ out = NoOut

\* claim = build_claim(result, ...); build_trust_envelope(claims=[claim], ...)
BuildClaimAndEnvelope ==
    /\ out = NoOut
    /\ LET claim == ClaimOf(CheckResultFor(arg.ctrl_id, arg.whole, arg.part,
                                           arg.raises),
                            arg.ctrl_id)
       IN  \E composite_confidence \in composite_confidences(<<claim.confidence>>) :
              out' = [op |-> "envelope",
                      claim |-> claim,
                      envelope |-> TrustEnvelopeOf(<<claim.confidence>>,
                                                   composite_confidence)]
    /\ UNCHANGED <<merkle_leaves, seeded, arg>>
    /\ UNCHANGED agent_vars
    /\ UNCHANGED keys
    /\ UNCHANGED service

PostureNext == BuildClaimAndEnvelope

PostureSpec == PostureInit /\ [][PostureNext]_vars

\* C1: the merkle_index values of the persisted rows that have a leaf hash
\* are exactly 0 .. n-1, n the number of such rows: no gap, no duplicate.
C1_DenseIndices ==
    {evidence[k].merkle_index : k \in LeafRows} = 0..(Cardinality(LeafRows) - 1)

\* C2: when db.insert_evidence fails after MerkleTree.append, the append is
\* rolled back: the leaf count is what it was before the control started and
\* equals the number of persisted leaf rows.
C2_AppendRolledBack ==
    [][(pc = "control" /\ ev'.op = "CollectEvidence"
           /\ ev'.outcome = "insert_failed")
        => /\ Len(merkle_leaves') = Len(merkle_leaves)
           /\ Len(merkle_leaves') = Cardinality(LeafRows')]_vars

\* C3: a failure while signing, appending or persisting evidence aborts only
\* that control: nothing is committed for it and the driver goes on with the
\* next control of the same cycle.
C3_FailureAbortsOnlyControl ==
    [][(pc = "control" /\ ev'.op = "CollectEvidence"
           /\ ev'.outcome \in {"sign_failed", "insert_failed"})
        => /\ evidence' = evidence
           /\ control_runs' = control_runs
           /\ trust_envelopes' = trust_envelopes
           /\ store' = store
           /\ run_start' = run_start
           /\ IF ci < Len(Controls)
              THEN pc' = "control" /\ ci' = ci + 1
              ELSE pc' = "idle"]_vars

\* C4: every persisted envelope's merkle_root is the root of the log of
\* exactly the items appended, in all cycles, up to the moment it was built,
\* and its total_items is the number of those items.
C4_EnvelopeRootIsLogRoot ==
    \A k \in RowIds(trust_envelopes) :
        /\ trust_envelopes[k].merkle_root
              = root(SubSeq(appended, 1, trust_envelopes[k].seen))
        /\ trust_envelopes[k].total_items = trust_envelopes[k].seen

\* C5: an agent that restarts and seeds its log from
\* db.get_evidence_leaf_hashes has the leaf sequence (hence the root) the
\* in-memory log had when the agent stopped.
C5_RestartReconstructsLog ==
    [][(nfaults' # nfaults /\ ev'.op = "Restart")
        => /\ merkle_leaves' = merkle_leaves
           /\ root(merkle_leaves') = root(merkle_leaves)]_vars

\* C6: after complete cycles over several controls, every persisted evidence
\* row with a leaf hash passes verify_proof, the proof taken by get_proof on
\* the full log and the expected root being the merkle_root of the latest
\* envelope of the row's control. Stated for runs without any fault.
C6_RowsVerifyAgainstLatestEnvelope ==
    (pc = "idle" /\ nfaults = 0)
    => \A all_leaves \in get_evidence_leaf_hashes :
          \A k \in LeafRows : merkle_status(k, all_leaves) = "VALID"

\* the run that recorded a ticket for the control last, and that ticket
C7_TicketedRuns(cid) ==
    {k \in RowIds(control_runs) :
        /\ control_runs[k].control_id = cid
        /\ control_runs[k].ticket_number # 0
        /\ control_runs[k].ticket_sys_id # NoSysId}

C7_Recorded(cid) ==
    control_runs[CHOOSE k \in C7_TicketedRuns(cid) :
                    \A j \in C7_TicketedRuns(cid) : j <= k]

C7_RecordedOpen(cid) ==
    /\ C7_TicketedRuns(cid) # {}
    /\ \E k \in 1..Len(store) :
          /\ SysIdOf(k) = C7_Recorded(cid).ticket_sys_id
          /\ store[k].state \in {1, 2}

C7_TicketsFor(cid) == {k \in 1..Len(store) : store[k].control_id = cid}

\* C7: while the ticket recorded for a control is open (state 1 or 2), no
\* step creates a further ticket for that control, and every ControlRun row
\* added for it with status fail records the same ticket_number and
\* ticket_sys_id as the recorded one.
C7_TicketDedup ==
    [][\A c \in 1..Len(Controls) :
          C7_RecordedOpen(Controls[c].id)
          => /\ C7_TicketsFor(Controls[c].id)' = C7_TicketsFor(Controls[c].id)
             /\ (/\ Len(control_runs') = Len(control_runs) + 1
                 /\ control_runs'[Len(control_runs')].control_id = Controls[c].id
                 /\ control_runs'[Len(control_runs')].status = "fail")
                => /\ control_runs'[Len(control_runs')].ticket_number
                        = C7_Recorded(Controls[c].id).ticket_number
                   /\ control_runs'[Len(control_runs')].ticket_sys_id
                        = C7_Recorded(Controls[c].id).ticket_sys_id]_vars

\* a control failed in two cycles, its single ticket moved to state 2 between
\* them, and both runs record that ticket
C7_Witness ==
    \E j, k \in RowIds(control_runs) :
        /\ j < k
        /\ control_runs[j].control_id = control_runs[k].control_id
        /\ control_runs[j].run_start # control_runs[k].run_start
        /\ control_runs[j].status = "fail"
        /\ control_runs[k].status = "fail"
        /\ control_runs[j].ticket_number # 0
        /\ control_runs[k].ticket_number = control_runs[j].ticket_number
        /\ control_runs[k].ticket_sys_id = control_runs[j].ticket_sys_id
        /\ Cardinality(C7_TicketsFor(control_runs[j].control_id)) = 1
        /\ store[control_runs[j].ticket_number].state = 2

\* C8: a failure of any ticketing-service call made for a failing control
\* (the open-state lookup as well as create_ticket) is swallowed: the driver
\* goes on to insert the ControlRun row of that control with null ticket
\* fields.
C8_TicketingFailuresSwallowed ==
    [][(pc = "ticket" /\ ev'.op = "Ticketing"
           /\ ev'.outcome \in {"create_failed", "lookup_failed"})
        => /\ pc' = "run"
           /\ ci' = ci
           /\ ticket_number' = 0
           /\ ticket_sys_id' = NoSysId]_vars

\* C9: a failed envelope build or insert for one product does not keep the
\* rest of the control from being stored: every later envelope step, the
\* ticketing step and the ControlRun insert of the control, when no fault of
\* its own occurs in it, stores its row and moves on.
C9_EnvelopeFailureIsolated ==
    [][(nfaults' = nfaults)
        => /\ (pc = "envelope" /\ (pc' # "envelope" \/ pi' # pi))
              => /\ Len(trust_envelopes') = Len(trust_envelopes) + 1
                 /\ evidence' = evidence
           /\ (pc = "ticket" /\ pc' # "ticket") => pc' = "run"
           /\ (pc = "run" /\ pc' # "run")
              => /\ Len(control_runs') = Len(control_runs) + 1
                 /\ evidence' = evidence]_vars

\* C10: an exception thrown by a check function becomes a CheckResult with
\* status error and summary {error: message}; the evidence row is written
\* with it and the control goes on through the pipeline of the same cycle.
C10_CheckExceptionBecomesError ==
    [][(pc = "control" /\ ev'.op = "CollectEvidence" /\ ev'.check = "raised"
           /\ nfaults' = nfaults)
        => /\ result' = [status |-> "error", summary |-> [error |-> "unavailable"]]
           /\ Len(evidence') = Len(evidence) + 1
           /\ evidence'[Len(evidence')].raw_data.status = "error"
           /\ evidence'[Len(evidence')].raw_data.summary = [error |-> "unavailable"]
           /\ evidence_id' = Len(evidence')
           /\ pc' \in {"envelope", "run"}
           /\ ci' = ci
           /\ run_start' = run_start]_vars

\* a check raised, and the control got its evidence row, an envelope and its
\* ControlRun row with status error
C10_Witness ==
    \E k \in RowIds(control_runs) :
        /\ control_runs[k].status = "error"
        /\ control_runs[k].summary = [error |-> "unavailable"]
        /\ evidence[control_runs[k].evidence_id].raw_data.status = "error"
        /\ \E e \in RowIds(trust_envelopes) :
              trust_envelopes[e].claims[1].evidence_refs[1]
                  = control_runs[k].evidence_id

\* evidence rows that no ControlRun row refers to
C11_Unfinished ==
    {k \in RowIds(evidence) :
        \A r \in RowIds(control_runs) : control_runs[r].evidence_id # k}

\* C11: an error that leaves run_cycle drops the position in the cycle; from
\* there the driver only reconnects (relations and log untouched, a fresh
\* connection) or gives up, the next cycle starts at the first control with a
\* new run_start, and no later step adds a ControlRun row or an envelope for
\* evidence of an earlier cycle.
C11_ReconnectThenFreshCycle ==
    [][/\ (pc # "reconnect" /\ pc' = "reconnect")
          => /\ ci' = 0 /\ pi' = 0 /\ result' = NoResult /\ evidence_id' = 0
             /\ ticket_number' = 0 /\ ticket_sys_id' = NoSysId
       /\ (pc = "reconnect" /\ ev'.op # "Restart")
          => /\ pc' \in {"idle", "exited"}
             /\ pc' = "idle" => ~txn_failed'
             /\ UNCHANGED <<evidence, control_runs, trust_envelopes, store,
                            merkle_leaves, ci, pi, evidence_id>>
       /\ (pc = "idle" /\ pc' # "idle")
          => /\ pc' = "control" /\ ci' = 1 /\ evidence_id' = 0
             /\ run_start' = clock
       /\ Len(control_runs') > Len(control_runs)
          => evidence[control_runs'[Len(control_runs')].evidence_id].run_start
                = run_start
       /\ Len(trust_envelopes') > Len(trust_envelopes)
          => evidence[trust_envelopes'[Len(trust_envelopes')].claims[1].evidence_refs[1]].run_start
                = run_start]_vars

\* a control was left unfinished by an error, the driver reconnected and a
\* new cycle is at its first control
C11_Witness ==
    /\ pc = "control"
    /\ ci = 1
    /\ nfaults = 1
    /\ ~txn_failed
    /\ \E k \in C11_Unfinished : evidence[k].run_start < run_start

\* C12: for the list arg of items, the log built by append over arg and a
\* fresh log that was given the leaf hashes of all of arg, in order
\* (append_leaf_hash one by one, or load_leaves), have the same count, the
\* same leaves and the same root.
C12_SeededLogEqualsAppendedLog ==
    (Len(seeded) = Len(arg))
    => /\ count(seeded) = count(merkle_leaves)
       /\ \A k \in 1..Len(arg) : seeded[k] = _hash_leaf(arg[k])
       /\ root(seeded) = root(merkle_leaves)

\* a log of three leaves, not all equal, and a second log seeded with its
\* three leaf hashes one by one
C12_Witness ==
    /\ Len(arg) = 3
    /\ arg[1] # arg[3]
    /\ out.op = "append_leaf_hash"
    /\ Len(seeded) = 3
    /\ root(seeded) = root(merkle_leaves)

\* C13: for a log of any size >= 1 and every index in [0, count), get_proof
\* returns a proof whose root_hash is the root of the log, and verify_proof
\* on the leaf hash at that index, the proof's hashes and the root is true.
C13_EveryProofVerifies ==
    /\ (out.op = "get_proof" /\ 0 <= out.index /\ out.index < count(merkle_leaves))
       => /\ out.res.exc = "none"
          /\ out.res.value.root_hash = root(merkle_leaves)
          /\ out.res.value.leaf_hash = merkle_leaves[out.index + 1]
    /\ (out.op = "verify_proof" /\ out.field = "none")
       => /\ out.args.leaf_hash = merkle_leaves[out.index + 1]
          /\ out.args.root_hash = root(merkle_leaves)
          /\ out.ok

\* the proof of the last leaf of a three-leaf log (an odd level, whose last
\* element is duplicated) was verified unchanged
C13_Witness ==
    /\ Len(merkle_leaves) = 3
    /\ out.op = "verify_proof"
    /\ out.field = "none"
    /\ out.index = 2
    /\ out.args.proof_hashes[1].hash = merkle_leaves[3]
    /\ out.ok

\* C14: for a valid proof, verify_proof is false as soon as the leaf hash,
\* the root hash or the hash of one entry of proof_hashes is replaced by a
\* different digest.
C14_TamperedProofRejected ==
    (out.op = "verify_proof" /\ out.field # "none") => ~out.ok

\* one entry of a two-step proof was replaced and the proof was rejected
C14_Witness ==
    /\ out.op = "verify_proof"
    /\ out.field = "proof_hashes"
    /\ out.entry = 2
    /\ Len(out.args.proof_hashes) = 2
    /\ ~out.ok

\* C15: get_proof raises IndexError for every index outside [0, count), on
\* the empty log for every index, and the call leaves the log as it was.
C15_GetProofOutOfRange ==
    [][(out'.op = "get_proof"
           /\ (out'.index < 0 \/ out'.index >= count(merkle_leaves)))
        => /\ out'.res.exc = "IndexError"
           /\ merkle_leaves' = merkle_leaves]_vars

\* get_proof(-1) was refused on a log that has leaves
C15_Witness ==
    /\ out.op = "get_proof"
    /\ out.index = -1
    /\ Len(merkle_leaves) >= 1
    /\ out.res.exc = "IndexError"

\* C16: for every persisted evidence row with a leaf hash, merkle_leaf_hash
\* is the leaf hash of the row's persisted payload, and the leaf of the
\* in-memory log at position merkle_index is that hash.
C16_RowIsItsLeaf ==
    \A k \in LeafRows :
        /\ evidence[k].merkle_leaf_hash = _hash_leaf(evidence[k].raw_data)
        /\ evidence[k].merkle_index < count(merkle_leaves)
        /\ merkle_leaves[evidence[k].merkle_index + 1] = evidence[k].merkle_leaf_hash

\* rel2 is rel with one row added at the end
C17_OneRowAdded(rel, rel2) ==
    /\ Len(rel2) = Len(rel) + 1
    /\ SubSeq(rel2, 1, Len(rel)) = rel

\* C17: each store write is atomic. A step in which insert_evidence,
\* insert_trust_envelope or insert_run raises leaves the three relations as
\* they were; any other step leaves a relation as it was or adds the one
\* whole row the call was given (every column set from the call's arguments),
\* and no step writes to two relations.
C17_WritesAreAtomic ==
    [][/\ (ev'.outcome = "insert_failed")
          => UNCHANGED <<evidence, control_runs, trust_envelopes>>
       /\ \/ evidence' = evidence
          \/ /\ C17_OneRowAdded(evidence, evidence')
             /\ LET row == evidence'[Len(evidence')]
                IN  /\ row.control_id = Controls[ci].id
                    /\ row.check_name = Controls[ci].check
                    /\ row.raw_data.control_id = Controls[ci].id
                    /\ row.raw_data.status = result'.status
                       \/ ev'.outcome = "claim_failed"
                    /\ row.merkle_leaf_hash = _hash_leaf(row.raw_data)
                    /\ row.merkle_index = Len(merkle_leaves)
             /\ UNCHANGED <<control_runs, trust_envelopes>>
       /\ \/ trust_envelopes' = trust_envelopes
          \/ /\ C17_OneRowAdded(trust_envelopes, trust_envelopes')
             /\ LET row == trust_envelopes'[Len(trust_envelopes')]
                IN  /\ row.control_id = Controls[ci].id
                    /\ row.product_id = ctrl_products(Controls[ci].id)[pi]
                    /\ row.claims = <<build_claim(result, evidence_id,
                                                  Controls[ci].id)>>
                    /\ row.merkle_root = root(merkle_leaves)
                    /\ row.total_items = count(merkle_leaves)
             /\ UNCHANGED <<evidence, control_runs>>
       /\ \/ control_runs' = control_runs
          \/ /\ C17_OneRowAdded(control_runs, control_runs')
             /\ LET row == control_runs'[Len(control_runs')]
                IN  /\ row.control_id = Controls[ci].id
                    /\ row.status = result.status
                    /\ row.summary = result.summary
                    /\ row.evidence_id = evidence_id
                    /\ row.ticket_number = ticket_number
                    /\ row.ticket_sys_id = ticket_sys_id
             /\ UNCHANGED <<evidence, trust_envelopes>>]_vars

\* insert_run raised for a control whose evidence row and envelopes are
\* stored: no ControlRun row was written
C17_Witness ==
    /\ ev.op = "InsertRun"
    /\ ev.outcome = "insert_failed"
    /\ ev.cause = "fault"
    /\ pc = "reconnect"
    /\ Len(evidence) = 1
    /\ Len(trust_envelopes) = 2
    /\ control_runs = <<>>

\* every row of rel is still in rel2, at its place and unchanged
C18_Kept(rel, rel2) ==
    /\ Len(rel) <= Len(rel2)
    /\ SubSeq(rel2, 1, Len(rel)) = rel

\* C18: evidence, ControlRun and TrustEnvelope rows are append-only: no step
\* of the agent (a cycle's step, a failure, a reconnect, a restart) changes
\* or removes a committed row.
C18_AppendOnly ==
    [][/\ C18_Kept(evidence, evidence')
       /\ C18_Kept(control_runs, control_runs')
       /\ C18_Kept(trust_envelopes, trust_envelopes')]_vars

\* two cycles each stored an envelope for the same control and product, and
\* a failure had occurred by then
C18_Witness ==
    /\ nfaults >= 1
    /\ \E j, k \in RowIds(trust_envelopes) :
          /\ j < k
          /\ trust_envelopes[j].control_id = trust_envelopes[k].control_id
          /\ trust_envelopes[j].product_id = trust_envelopes[k].product_id
          /\ trust_envelopes[j].collection_window_start
                < trust_envelopes[k].collection_window_start

\* C19: the confidence of the Claim is 0.1 for status error and 1.0 for
\* pass; for fail it is round(1 - missing_approval/recent_users_checked, 4)
\* for LA.01 when recent_users_checked > 0, round(1 - sla_breaches /
\* disabled_users_with_sla_tracking, 4) for LA.02 when that count is > 0,
\* and 0.0 in every other case.
C19_Confidence ==
    (out.op = "build_claim")
    => LET s == arg.summary
           c == out.claim.confidence
       IN  /\ arg.status = "error" => 10 * c = ConfScale
           /\ arg.status = "pass" => c = ConfScale
           /\ (arg.status = "fail" /\ arg.ctrl_id = "LA.01"
                 /\ Get(s, "recent_users_checked") > 0)
              => c = RoundedRate(Get(s, "missing_approval"),
                                 Get(s, "recent_users_checked"))
           /\ (arg.status = "fail" /\ arg.ctrl_id = "LA.02"
                 /\ Get(s, "disabled_users_with_sla_tracking") > 0)
              => c = RoundedRate(Get(s, "sla_breaches"),
                                 Get(s, "disabled_users_with_sla_tracking"))
           /\ (arg.status = "fail"
                 /\ ~(arg.ctrl_id = "LA.01" /\ Get(s, "recent_users_checked") > 0)
                 /\ ~(arg.ctrl_id = "LA.02"
                        /\ Get(s, "disabled_users_with_sla_tracking") > 0))
              => c = 0

\* LA.02 failed with 1 breach among 3 tracked users: confidence 0.6667
C19_Witness ==
    /\ out.op = "build_claim"
    /\ arg.status = "fail"
    /\ arg.ctrl_id = "LA.02"
    /\ Get(arg.summary, "disabled_users_with_sla_tracking") = 3
    /\ Get(arg.summary, "sla_breaches") = 1
    /\ out.claim.confidence = 6667

\* C20: the result grade is SATISFIED iff the status is pass, INDETERMINATE
\* iff it is error, PARTIAL iff it is fail with 0 < confidence < 1, and
\* NOT_SATISFIED for every other fail; NOT_APPLICABLE is never produced.
C20_ResultGrade ==
    (out.op = "build_claim")
    => LET c == out.claim.confidence
           g == out.claim.result
       IN  /\ (g = "SATISFIED") = (arg.status = "pass")
           /\ (g = "INDETERMINATE") = (arg.status = "error")
           /\ (g = "PARTIAL") = (arg.status = "fail" /\ 0 < c /\ c < ConfScale)
           /\ (g = "NOT_SATISFIED")
                 = (arg.status = "fail" /\ ~(0 < c /\ c < ConfScale))
           /\ g # "NOT_APPLICABLE"

\* LA.01 failed with 1 of 2 accounts lacking approval: the Claim is PARTIAL
C20_Witness ==
    /\ out.op = "build_claim"
    /\ arg.status = "fail"
    /\ arg.ctrl_id = "LA.01"
    /\ out.claim.confidence = 5000
    /\ out.claim.result = "PARTIAL"

\* C21: for a Claim built from a CheckResult with status pass or error the
\* caveats list and the recommendations list are both empty; they are
\* non-empty only for status fail.
C21_EmptyUnlessFail ==
    (out.op = "build_claim")
    => /\ arg.status \in {"pass", "error"}
          => /\ out.claim.caveats = <<>>
             /\ out.claim.recommendations = <<>>
       /\ (out.claim.caveats # <<>> \/ out.claim.recommendations # <<>>)
          => arg.status = "fail"

\* the band of a confidence c given in units of 1/ConfScale
C22_Band(c) ==
    CASE c >= 9500 -> "VERIFIED"
      [] c >= 7500 /\ c < 9500 -> "HIGH"
      [] c >= 5500 /\ c < 7500 -> "MEDIUM"
      [] c >= 3000 /\ c < 5500 -> "LOW"
      [] c < 3000 -> "CRITICAL"

\* C22: the trust_level of every envelope, in the row's column and in the
\* stored document, is the band of its own composite_confidence (VERIFIED
\* from 0.95, HIGH from 0.75, MEDIUM from 0.55, LOW from 0.30, CRITICAL
\* below, each limit in the higher band), and composite_confidence is the
\* mean of the claims' confidences rounded to four places, 0.0 for no claim.
C22_TrustLevelOfComposite ==
    (out.op = "build_trust_envelope")
    => LET row == out.row
           c == row.composite_confidence
           n == Len(arg)
       IN  /\ row.trust_level = C22_Band(c)
           /\ row.envelope_data.trust_level = row.trust_level
           /\ row.envelope_data.composite_confidence = c
           /\ n = 0 => c = 0
           /\ n > 0 => /\ 2 * n * c >= 2 * Sum(arg, 1) - n
                       /\ 2 * n * c <= 2 * Sum(arg, 1) + n

\* two claims of confidence 1.0 and 0.9: the mean 0.95 is on the limit and
\* the envelope is VERIFIED
C22_Witness ==
    /\ out.op = "build_trust_envelope"
    /\ arg = <<10000, 9000>>
    /\ out.row.composite_confidence = 9500
    /\ out.row.trust_level = "VERIFIED"

\* the member names of every object of the text are in ascending order
RECURSIVE C24_KeysSorted(_)
C24_KeysSorted(doc) ==
    CASE doc.j \in {"number", "string"} -> TRUE
      [] doc.j = "array" -> \A i \in 1..Len(doc.xs) : C24_KeysSorted(doc.xs[i])
      [] doc.j = "object" ->
            /\ \A i \in 1..(Len(doc.members) - 1) :
                  LexLess(doc.members[i].name, doc.members[i + 1].name)
            /\ \A i \in 1..Len(doc.members) : C24_KeysSorted(doc.members[i].value)

C23_Get(d, name) ==
    d.items[CHOOSE i \in 1..Len(d.items) : d.items[i].k = PyStr(Chars[name])].v

\* C23: every stored evidence row, every stored envelope and every Claim in
\* a stored envelope carries a signature that verifies, under the key of the
\* running process, over the canonical form of the record as it is read
\* back from the store without its signature field; this holds for the
\* records written before a restart as long as the key files were kept.
C23_SignaturesVerify ==
    (key_pair # 0)
    => /\ \A k \in RowIds(evidence) :
             evidence[k].removals = nfaults
             => KeyPair_verify(key_pair, loads(evidence[k].raw_data),
                               evidence[k].signature)
       /\ \A k \in RowIds(trust_envelopes) :
             trust_envelopes[k].removals = nfaults
             => LET d == loads(trust_envelopes[k].envelope_data)
                    cs == C23_Get(d, "claims").xs
                IN  /\ KeyPair_verify(key_pair, Unsigned(d),
                                      trust_envelopes[k].signature)
                    /\ SignatureOf(d) = trust_envelopes[k].signature
                    /\ \A c \in 1..Len(cs) :
                          KeyPair_verify(key_pair, Unsigned(cs[c]),
                                         SignatureOf(cs[c]))

\* the process has just started again, the key files in place: the evidence
\* row and the envelope in the store were written by the process before it,
\* and the evidence row verifies under the key that was loaded
C23_Witness ==
    /\ out.op = "load_or_generate"
    /\ key_pair # 0
    /\ nfaults = 0
    /\ Len(evidence) = 1
    /\ Len(trust_envelopes) = 1
    /\ KeyPair_verify(key_pair, loads(evidence[1].raw_data), evidence[1].signature)

\* C25: once the loop of main has been entered the process never ends:
\* whatever fails in a cycle or in the reconnect after it, the driver stays
\* in its loop.
C25_NeverExits == pc # "exited"

\* the versions of incident k from the floor-th on (from the first for floor 0)
C26_Versions(k, floor) ==
    {committed[k][i] : i \in {j \in 1..Len(committed[k]) : j >= floor}}

\* C26: every answered request of the ticketing service fits one sequential
\* order of the requests that respects real time: a record in a response is
\* the incident as a completed write left it, never a partially applied
\* update, and it is not older than the last write that was answered before
\* the request started.
C26_Linearizable ==
    \A t \in Threads :
        (threads[t].pc = "idle" /\ threads[t].response.code \in {200, 201})
        => IF threads[t].op = "list"
           THEN \A i \in 1..Len(threads[t].response.records) :
                   threads[t].response.records[i]
                      \in C26_Versions(threads[t].ref + 1 - i, 0)
           ELSE threads[t].response.records[1]
                   \in C26_Versions(threads[t].ref, threads[t].floor)

\* C27: the k-th incident created carries the number INC and the seven
\* digits of k, the value of the counter at its creation: no two incidents
\* share a number, and an incident created later has the larger number.
C27_NumbersFromCounter ==
    /\ _counter = Len(store)
    /\ \A k \in 1..Len(store) : store[k].number = NumberText(k)
    /\ \A j, k \in 1..Len(store) : j # k => store[j].number # store[k].number

\* the place of a step in the handling of one control
C28_Rank(p) ==
    CASE p = "control" -> 1
      [] p = "envelope" -> 2
      [] p = "ticket" -> 3
      [] p = "run" -> 4
      [] OTHER -> 0

C28_Last(rel) == rel[Len(rel)]

\* C28: within a cycle the controls are taken one after the other in config
\* order, and the steps of one control never go backwards: check, sign,
\* Merkle append, evidence insert and claim, then the envelopes product by
\* product, then the ticket, then the run insert. The next control starts
\* only after the run insert or the skip of the control before it. The leaf
\* is appended before the evidence row is written, and every envelope,
\* ticket or run row is written in a later step than the evidence row it
\* refers to.
C28_StepsInOrder ==
    [][/\ ci' # ci => ci' = ci + 1 \/ ci' = 0
       /\ (ci' = ci /\ C28_Rank(pc) > 0 /\ C28_Rank(pc') > 0)
          => /\ C28_Rank(pc') >= C28_Rank(pc)
             /\ pc' = "envelope" => pi' = pi + 1
       /\ (ci' = ci + 1 /\ ci > 0)
          => /\ pc' = "control"
             /\ \/ pc = "control" /\ ev'.op = "SkipUnknownCheck"
                \/ pc = "run" /\ Len(control_runs') = Len(control_runs) + 1
       /\ (pc = "control" /\ ev'.op = "CollectEvidence")
          => /\ ev'.outcome = "sign_failed"
                => merkle_leaves' = merkle_leaves /\ evidence' = evidence
             /\ ev'.outcome = "insert_failed"
                => Len(merkle_leaves') = Len(merkle_leaves) + 1
                   /\ evidence' = evidence
             /\ ev'.outcome \in {"claim_failed", "ok"}
                => Len(evidence') = Len(evidence) + 1
       /\ evidence' # evidence
          => /\ pc = "control"
             /\ merkle_leaves' = Append(merkle_leaves,
                                        C28_Last(evidence').merkle_leaf_hash)
             /\ C28_Last(evidence').merkle_index = Len(merkle_leaves)
             /\ trust_envelopes' = trust_envelopes
             /\ control_runs' = control_runs
             /\ store' = store
       /\ trust_envelopes' # trust_envelopes
          => /\ pc = "envelope"
             /\ evidence' = evidence
             /\ evidence_id \in 1..Len(evidence)
             /\ C28_Last(trust_envelopes').claims[1].evidence_refs
                   = <<evidence_id>>
             /\ evidence[evidence_id].control_id
                   = C28_Last(trust_envelopes').control_id
       /\ Len(store') > Len(store)
          => /\ pc = "ticket"
             /\ evidence' = evidence
             /\ evidence_id \in 1..Len(evidence)
             /\ evidence[evidence_id].control_id = C28_Last(store').control_id
       /\ control_runs' # control_runs
          => /\ pc = "run"
             /\ evidence' = evidence
             /\ C28_Last(control_runs').evidence_id \in 1..Len(evidence)
             /\ evidence[C28_Last(control_runs').evidence_id].control_id
                   = C28_Last(control_runs').control_id]_vars

\* LA.01 failed and went through every step (two envelopes, a new ticket,
\* the run row); LA.77 was skipped and the check of LA.02 is next
C28_Witness ==
    /\ pc = "control"
    /\ ci = 3
    /\ Len(evidence) = 1
    /\ Len(trust_envelopes) = 2
    /\ \A k \in 1..2 : trust_envelopes[k].claims[1].evidence_refs = <<1>>
    /\ Len(store) = 1
    /\ Len(control_runs) = 1
    /\ control_runs[1].evidence_id = 1
    /\ control_runs[1].ticket_number = 1

\* the ControlRun rows that carry the evidence id id
C29_RunsOf(rel, id) == {k \in 1..Len(rel) : rel[k].evidence_id = id}

\* C29: once the evidence row of a control is persisted, the handling of the
\* control ends with exactly one ControlRun row of the same cycle that
\* carries the control id, the status of the check, the id of that evidence
\* row and the summary, whatever the envelope and ticket steps did (a fault
\* of the run insert itself set aside).
C29_OneRunPerEvidence ==
    [][(/\ pc \in {"envelope", "ticket", "run"}
        /\ ci' # ci \/ pc' \notin {"envelope", "ticket", "run"}
        /\ ~(pc = "run" /\ ev'.op = "InsertRun" /\ ev'.cause = "fault"))
       => /\ Len(control_runs') = Len(control_runs) + 1
          /\ C29_RunsOf(control_runs', evidence_id) = {Len(control_runs')}
          /\ control_runs'[Len(control_runs')].control_id
                = evidence[evidence_id].control_id
          /\ control_runs'[Len(control_runs')].status = result.status
          /\ control_runs'[Len(control_runs')].summary = result.summary
          /\ control_runs'[Len(control_runs')].run_start
                = evidence[evidence_id].run_start]_vars

\* C30: for a control whose check status is pass or error the driver never
\* enters the ticket branch: no lookup of a recorded ticket, no call of the
\* ticketing service, no incident created, and the ControlRun row carries no
\* ticket number and no ticket sys_id. A cycle whose controls all pass
\* creates no ticket.
C30_NoTicketUnlessFail ==
    [][/\ pc' = "ticket" => result'.status = "fail"
       /\ pc = "ticket" => result.status = "fail"
       /\ Len(store') > Len(store) => pc = "ticket" /\ result.status = "fail"
       /\ (Len(control_runs') > Len(control_runs)
           /\ control_runs'[Len(control_runs')].status \in {"pass", "error"})
          => /\ control_runs'[Len(control_runs')].ticket_number = 0
             /\ control_runs'[Len(control_runs')].ticket_sys_id = NoSysId
             /\ ticket_number = 0
             /\ ticket_sys_id = NoSysId]_vars

\* a whole cycle without a failing control: LA.01 passed, the check of LA.02
\* raised; both run rows are written and no incident exists
C30_Witness ==
    /\ pc = "idle"
    /\ Len(control_runs) = 2
    /\ control_runs[1].status = "pass"
    /\ control_runs[2].status = "error"
    /\ \A k \in 1..2 : /\ control_runs[k].ticket_number = 0
                       /\ control_runs[k].ticket_sys_id = NoSysId
    /\ Len(trust_envelopes) = 3
    /\ store = <<>>

C32_UnknownCheckSkipped ==
    [][(pc = "control" /\ Controls[ci].check \notin REGISTRY)
       => /\ merkle_leaves' = merkle_leaves
          /\ count(merkle_leaves') = count(merkle_leaves)
          /\ appended' = appended
          /\ evidence' = evidence
          /\ trust_envelopes' = trust_envelopes
          /\ store' = store
          /\ control_runs' = control_runs
          /\ nfaults' = nfaults
          /\ IF ci < Len(Controls)
             THEN pc' = "control" /\ ci' = ci + 1
             ELSE pc' = "idle" /\ ci' = 0]_vars

\* LA.77 names no registered check: it was skipped after LA.01 was handled,
\* and the check of LA.02 is next
C32_Witness ==
    /\ ev.op = "SkipUnknownCheck"
    /\ pc = "control"
    /\ ci = 3
    /\ Controls[2].check \notin REGISTRY
    /\ Controls[ci].check \in REGISTRY
    /\ Len(evidence) = 1
    /\ Len(merkle_leaves) = 1
    /\ Len(control_runs) = 1
    /\ \A k \in 1..Len(control_runs) : control_runs[k].control_id # Controls[2].id

\* the disabled users whose termination attribute is present and parses
C33_Parseable(users) ==
    {k \in 1..Len(users) : /\ ~users[k].enabled
                           /\ users[k].raw # <<>>
                           /\ users[k].raw[1].iso}

\* C33: when terminations_sla got the user list, the summary entry
\* disabled_users_with_sla_tracking is the number of disabled users whose
\* termination attribute is present and parseable, sla_breaches is the number
\* of those users with days_open > sla_days, and the status is fail exactly
\* when sla_breaches > 0 and pass otherwise.
C33_TerminationsSlaCounts ==
    (out.op = "terminations_sla" /\ ~arg.raises)
    => /\ out.result.summary.disabled_users_with_sla_tracking
             = Cardinality(C33_Parseable(arg.users))
       /\ out.result.summary.sla_breaches
             = Cardinality({k \in C33_Parseable(arg.users) :
                   arg.now - arg.users[k].raw[1].day > arg.sla_days})
       /\ out.result.status
             = (IF out.result.summary.sla_breaches > 0 THEN "fail" ELSE "pass")

\* C34: within one call of _get the token is fetched at most once after a
\* 401 and the request is sent at most twice; the second GET and the fetch
\* come only after a 401 answer to the first, and the second GET asks for the
\* same path with the token just fetched; when the call has ended, it
\* returned exactly when its last GET was answered 200, a first answer other
\* than 200 and 401 ended it with one GET and no fetch, and any answer to the
\* second GET other than 200 ended it with an exception.
C34_RetryOnceOn401 ==
    /\ out.refreshes <= 1
    /\ Len(out.sent) <= 2
    /\ out.refreshes = 1 => Len(out.sent) >= 1 /\ out.sent[1].status = 401
    /\ Len(out.sent) = 2
       => /\ out.sent[1].status = 401
          /\ out.refreshes = 1
          /\ out.sent[2].path = out.sent[1].path
          /\ out.sent[2].token = out.fetched
          /\ out.sent[2].token # out.sent[1].token
    /\ (out.pc = "idle" /\ out.calls > 0)
       => /\ out.result = "returned"
             <=> (out.sent # <<>> /\ out.sent[Len(out.sent)].status = 200)
          /\ (out.sent # <<>> /\ out.sent[1].status \notin {200, 401})
             => Len(out.sent) = 1 /\ out.refreshes = 0 /\ out.result = "raised"
          /\ (Len(out.sent) = 2 /\ out.sent[2].status # 200)
             => out.result = "raised"

\* a call whose first GET was answered 401: the token was fetched anew, the
\* request sent again, answered 401 again, and the call raised
C34_Witness ==
    /\ out.pc = "idle"
    /\ Len(out.sent) = 2
    /\ out.sent[1].status = 401
    /\ out.sent[2].status = 401
    /\ out.refreshes = 1
    /\ out.result = "raised"

\* C35: for each control at most one of the tickets the agent created is
\* open (state 1 or 2) at any time; external actors only move tickets on to
\* resolved or closed.
C35_AtMostOneOpenTicket ==
    \A c \in 1..Len(Controls) :
        Cardinality({k \in C7_TicketsFor(Controls[c].id) :
                        store[k].state \in {1, 2}}) <= 1

\* C36: an envelope built from a single claim whose result is not SATISFIED
\* (the control failed or its check ended in an error) never has the trust
\* level VERIFIED.
C36_NotSatisfiedNeverVerified ==
    (out.op = "envelope" /\ out.claim.result # "SATISFIED")
    => out.envelope.trust_level # "VERIFIED"

\* C37: every envelope the driver persists holds exactly one claim; the
\* claim refers to exactly one evidence id, the row written for the same
\* control in the same cycle; the composite_confidence of the envelope is
\* the confidence of that claim; total_items is the merkle_index of that row
\* plus one, and the merkle_root is the root of the log whose last leaf is
\* the leaf of that row.
C37_EnvelopeAttestsItsEvidence ==
    [][trust_envelopes' # trust_envelopes
       => LET envelope == trust_envelopes'[Len(trust_envelopes')]
              refs == envelope.claims[1].evidence_refs
          IN  /\ Len(trust_envelopes') = Len(trust_envelopes) + 1
              /\ Len(envelope.claims) = 1
              /\ Len(refs) = 1
              /\ refs[1] \in 1..Len(evidence)
              /\ evidence[refs[1]].control_id = envelope.control_id
              /\ evidence[refs[1]].run_start = run_start
              /\ envelope.collection_window_start = run_start
              /\ envelope.composite_confidence = envelope.claims[1].confidence
              /\ envelope.total_items = evidence[refs[1]].merkle_index + 1
              /\ envelope.total_items = Len(merkle_leaves)
              /\ merkle_leaves[envelope.total_items]
                    = evidence[refs[1]].merkle_leaf_hash
              /\ envelope.merkle_root = root(merkle_leaves)]_vars

\* LA.01 passed and LA.02 failed with one breach among two tracked users:
\* the envelope of LA.02 holds the claim on evidence row 2 with confidence
\* 0.5 and covers two leaves
C37_Witness ==
    /\ Len(evidence) = 2
    /\ Len(trust_envelopes) = 3
    /\ trust_envelopes[3].control_id = "LA.02"
    /\ trust_envelopes[3].claims[1].evidence_refs = <<2>>
    /\ trust_envelopes[3].claims[1].confidence = ConfScale \div 2
    /\ trust_envelopes[3].composite_confidence = ConfScale \div 2
    /\ trust_envelopes[3].total_items = 2
    /\ evidence[2].merkle_index = 1

\* C38: appending a leaf to a log that is not empty changes the root, also
\* when the leaf equals the last leaf of the log: the logs before and after
\* the append are different leaf sequences and have different roots.
C38_AppendChangesRoot ==
    [][(/\ out'.op = "append"
        /\ merkle_leaves # <<>>
        /\ Len(merkle_leaves') = Len(merkle_leaves) + 1)
       => root(merkle_leaves') # root(merkle_leaves)]_vars

\* C39: when the turn of a control comes in a cycle, on a healthy connection
\* and with no open ticket recorded for it, then, unless a call fails later,
\* a ControlRun row of the control is written in this cycle that either says
\* the control did not fail or records a non-null ticket. The ticket is
\* created whatever the earlier runs recorded: a creation that failed in an
\* earlier cycle is attempted again in the next failing one.
C39_Turn(cid, r) ==
    /\ pc = "control"
    /\ Controls[ci].id = cid
    /\ Controls[ci].check \in REGISTRY
    /\ clock <= MaxCollected
    /\ ~txn_failed
    /\ ~ReusableTicket(cid)
    /\ Len(control_runs) = r

C39_Settled(cid, r) ==
    \E k \in RowIds(control_runs) :
       /\ k > r
       /\ control_runs[k].control_id = cid
       /\ \/ control_runs[k].status # "fail"
          \/ control_runs[k].ticket_number # 0

C39_TicketEventuallyRecorded ==
    \A cid \in {"LA.01", "LA.02"} : \A r \in 0..MaxCollected :
       [](C39_Turn(cid, r) => <>(C39_Settled(cid, r) \/ ev.cause = "fault"))

\* LA.01 failed in two cycles: the creation of the ticket failed in the first
\* one and the run was written without a ticket, the second one created the
\* ticket and recorded it
C39_Witness ==
    \E j, k \in RowIds(control_runs) :
       /\ j < k
       /\ control_runs[j].control_id = "LA.01"
       /\ control_runs[j].status = "fail"
       /\ control_runs[j].ticket_number = 0
       /\ control_runs[k].control_id = "LA.01"
       /\ control_runs[k].status = "fail"
       /\ control_runs[k].ticket_number # 0
       /\ control_runs[k].run_start > control_runs[j].run_start
====
